---- MODULE Spec2Model ----
(***************************************************************************)
(* A model of fal-bot's admission control: the RateLimiter of              *)
(* src/fal_bot/rate_limiter.py (daily quota per user and model, one        *)
(* generation in flight per user), the /veo, /wan and /ovi commands that   *)
(* acquire and release its slot around moderation and job submission, and  *)
(* the moderation helpers of src/fal_bot/moderation.py.                    *)
(*                                                                         *)
(* Time is in whole seconds.  A dictionary key that is absent and a key    *)
(* that holds an empty list are one value here (the empty sequence): every *)
(* read in the source goes through .get(..., []) or tests emptiness.       *)
(***************************************************************************)
EXTENDS Integers, Sequences, FiniteSets, TLC

\* ------------------------------------------------------------------ bounds

\* Successful acquisitions after the initial state, over all users.
MaxAcquires == 2

\* The most status responses the remote service gives for one job.
MaxPolls == 4

\* The calls of moderate_request made one after the other.
MaxRequests == 2

\* How far around each length of interest the texts tried reach.
Slack == 1

\* --------------------------------------------------------------- constants

\* timedelta(days=1), in seconds.
Day == 86400

Users == {1, 2}
\* "wan" stands for every key that MODEL_LIMITS does not hold.
Resources == {"veo", "default", "wan"}

MODEL_LIMITS == [veo |-> 5, default |-> 50]

CONCURRENT_MSG == "You already have a generation in progress. Please wait for it to complete."

\* The instants the clock is read at: a start, one second later, and the
\* instants 24h after each of them, so that a timestamp can be seen one second
\* before its expiry, exactly 24h old and older.
Times == {0, 1, Day, Day + 1}

VARIABLES
    daily_usage,    \* [user -> [model -> sequence of timestamps]]
    active_users,   \* set of users holding the slot
    now,            \* the wall clock, datetime.now()
    recorded,       \* history: every timestamp ever appended, never pruned
    held,           \* history: users between a successful acquire and the next release call
    acquires,       \* history: successful acquisitions since the initial state
    task,           \* the command invocations (cooperative tasks)
    thr,            \* the callers of acquire on a pre-emptive host
    job,            \* one call of submit_interactive_task and its remote job
    mreq,           \* the call of moderate_request being served
    clock_log,      \* history: the clock values the last command prologue or
                    \* can_generate call read, in the order it read them
    err             \* the call of the on_error callback or of wrap_source_code
                    \* being served

vars ==
    <<daily_usage, active_users, now, recorded, held, acquires, task, thr, job, mreq,
      clock_log, err>>

\* ----------------------------------------------------------- rate limiter

MinOf(s) == CHOOSE x \in {s[i] : i \in DOMAIN s} : \A j \in DOMAIN s : x <= s[j]

Max0(x) == IF x > 0 THEN x ELSE 0

get_model_limit(model) ==
    IF model \in DOMAIN MODEL_LIMITS THEN MODEL_LIMITS[model] ELSE MODEL_LIMITS["default"]

\* Mutant: the cutoff comparison made inclusive (ts >= cutoff).
KeepFreshInclusive(log, t) ==
    LET cutoff == t - Day
        Fresh(ts) == ts >= cutoff
    IN  SelectSeq(log, Fresh)

\* The entries of a log that the comprehension of _clean_old_timestamps keeps
\* when the clock reads t.
KeepFresh(log, t) ==
    LET cutoff == t - Day
        Fresh(ts) == ts > cutoff
    IN  SelectSeq(log, Fresh)

clean_old_timestamps(usage, user_id, model, t) ==
    [usage EXCEPT ![user_id][model] = KeepFresh(@, t)]

\* Mutant: the newest timestamp is taken instead of the oldest.
get_reset_time_newest(usage, user_id, model, clk) ==
    LET u1 == clean_old_timestamps(usage, user_id, model, clk[1])
        log == u1[user_id][model]
    IN  IF log = <<>>
        THEN [usage |-> u1, value |-> clk[2]]
        ELSE [usage |-> u1,
              value |-> (CHOOSE x \in {log[i] : i \in DOMAIN log} :
                            \A j \in DOMAIN log : x >= log[j]) + Day]

\* Returns the pruned usage and the value; clk = <<clock at the pruning,
\* clock at the datetime.now() of the empty branch>>.
get_reset_time(usage, user_id, model, clk) ==
    LET u1 == clean_old_timestamps(usage, user_id, model, clk[1])
    IN  IF u1[user_id][model] = <<>>
        THEN [usage |-> u1, value |-> clk[2]]
        ELSE [usage |-> u1, value |-> MinOf(u1[user_id][model]) + Day]

\* Mutant: the log is counted without being pruned first.
get_remaining_generations_unpruned(usage, user_id, model, t) ==
    LET limit == get_model_limit(model)
        used == Len(usage[user_id][model])
    IN  [usage |-> usage, value |-> Max0(limit - used)]

get_remaining_generations(usage, user_id, model, t) ==
    LET u1 == clean_old_timestamps(usage, user_id, model, t)
        limit == get_model_limit(model)
        used == Len(u1[user_id][model])
    IN  [usage |-> u1, value |-> Max0(limit - used)]

\* Mutant: the limit test off by one (used > limit).
QuotaReachedOffByOne(used, limit) == used > limit

QuotaReached(used, limit) == used >= limit

\* Mutant: the daily limit tested before the concurrency limit.
can_generate_quota_first(usage, active, user_id, model, clk) ==
    LET u1 == clean_old_timestamps(usage, user_id, model, clk[1])
        limit == get_model_limit(model)
        used == Len(u1[user_id][model])
    IN  IF QuotaReached(used, limit)
        THEN LET rt == get_reset_time(u1, user_id, model, <<clk[2], clk[3]>>)
                 time_until_reset == rt.value - clk[4]
             IN  [usage |-> rt.usage, active |-> active, ok |-> FALSE,
                  reason |-> [kind |-> "daily_limit",
                              model_name |-> IF model = "veo" THEN "Veo 3.1" ELSE "this model",
                              limit |-> limit, hours |-> time_until_reset \div 3600,
                              minutes |-> (time_until_reset % 3600) \div 60]]
        ELSE IF user_id \in active
             THEN [usage |-> u1, active |-> active, ok |-> FALSE,
                   reason |-> [kind |-> "in_progress", text |-> CONCURRENT_MSG]]
             ELSE [usage |-> u1, active |-> active, ok |-> TRUE, reason |-> [kind |-> "none"]]

\* Mutant: hours and minutes rounded to the nearest instead of truncated.
can_generate_rounded(usage, active, user_id, model, clk) ==
    IF user_id \in active
    THEN [usage |-> usage, active |-> active, ok |-> FALSE, reason |-> [kind |-> "in_progress", text |-> CONCURRENT_MSG]]
    ELSE LET u1 == clean_old_timestamps(usage, user_id, model, clk[1])
             limit == get_model_limit(model)
             used == Len(u1[user_id][model])
         IN  IF QuotaReached(used, limit)
             THEN LET rt == get_reset_time(u1, user_id, model, <<clk[2], clk[3]>>)
                      time_until_reset == rt.value - clk[4]
                      hours == (time_until_reset + 1800) \div 3600
                      minutes == ((time_until_reset % 3600) + 30) \div 60
                      model_name == IF model = "veo" THEN "Veo 3.1" ELSE "this model"
                  IN  [usage |-> rt.usage, active |-> active, ok |-> FALSE,
                       reason |-> [kind |-> "daily_limit", model_name |-> model_name,
                                   limit |-> limit, hours |-> hours, minutes |-> minutes]]
             ELSE [usage |-> u1, active |-> active, ok |-> TRUE, reason |-> [kind |-> "none"]]

\* Mutant: an allowed check records a generation, as acquire does.
can_generate_records(usage, active, user_id, model, clk) ==
    IF user_id \in active
    THEN [usage |-> usage, active |-> active, ok |-> FALSE, reason |-> [kind |-> "in_progress", text |-> CONCURRENT_MSG]]
    ELSE LET u1 == clean_old_timestamps(usage, user_id, model, clk[1])
             limit == get_model_limit(model)
             used == Len(u1[user_id][model])
         IN  IF QuotaReached(used, limit)
             THEN LET rt == get_reset_time(u1, user_id, model, <<clk[2], clk[3]>>)
                      time_until_reset == rt.value - clk[4]
                      hours == time_until_reset \div 3600
                      minutes == (time_until_reset % 3600) \div 60
                      model_name == IF model = "veo" THEN "Veo 3.1" ELSE "this model"
                  IN  [usage |-> rt.usage, active |-> active, ok |-> FALSE,
                       reason |-> [kind |-> "daily_limit", model_name |-> model_name,
                                   limit |-> limit, hours |-> hours, minutes |-> minutes]]
             ELSE [usage |-> [u1 EXCEPT ![user_id][model] = Append(@, clk[4])],
                   active |-> active, ok |-> TRUE, reason |-> [kind |-> "none"]]

\* Mutant: one slot for the whole bot, any active user blocks every user.
can_generate_global_slot(usage, active, user_id, model, clk) ==
    IF active # {}
    THEN [usage |-> usage, active |-> active, ok |-> FALSE, reason |-> [kind |-> "in_progress", text |-> CONCURRENT_MSG]]
    ELSE LET u1 == clean_old_timestamps(usage, user_id, model, clk[1])
             limit == get_model_limit(model)
             used == Len(u1[user_id][model])
         IN  IF QuotaReached(used, limit)
             THEN LET rt == get_reset_time(u1, user_id, model, <<clk[2], clk[3]>>)
                      time_until_reset == rt.value - clk[4]
                      model_name == IF model = "veo" THEN "Veo 3.1" ELSE "this model"
                  IN  [usage |-> rt.usage, active |-> active, ok |-> FALSE,
                       reason |-> [kind |-> "daily_limit", model_name |-> model_name,
                                   limit |-> limit, hours |-> time_until_reset \div 3600,
                                   minutes |-> (time_until_reset % 3600) \div 60]]
             ELSE [usage |-> u1, active |-> active, ok |-> TRUE, reason |-> [kind |-> "none"]]

\* Mutant: the log is counted as it stands, without pruning it first.
can_generate_no_prune(usage, active, user_id, model, clk) ==
    IF user_id \in active
    THEN [usage |-> usage, active |-> active, ok |-> FALSE, reason |-> [kind |-> "in_progress", text |-> CONCURRENT_MSG]]
    ELSE LET limit == get_model_limit(model)
             used == Len(usage[user_id][model])
         IN  IF QuotaReached(used, limit)
             THEN LET rt == get_reset_time(usage, user_id, model, <<clk[2], clk[3]>>)
                      time_until_reset == rt.value - clk[4]
                      model_name == IF model = "veo" THEN "Veo 3.1" ELSE "this model"
                  IN  [usage |-> rt.usage, active |-> active, ok |-> FALSE,
                       reason |-> [kind |-> "daily_limit", model_name |-> model_name,
                                   limit |-> limit, hours |-> time_until_reset \div 3600,
                                   minutes |-> (time_until_reset % 3600) \div 60]]
             ELSE [usage |-> usage, active |-> active, ok |-> TRUE, reason |-> [kind |-> "none"]]

\* Mutant: a slot times out, an active user whose generations on the
\* resource have all expired is taken out of the active set and checked anew.
can_generate_frees_stale(usage, active, user_id, model, clk) ==
    LET u1 == clean_old_timestamps(usage, user_id, model, clk[1])
        limit == get_model_limit(model)
        used == Len(u1[user_id][model])
    IN  IF user_id \in active /\ used > 0
        THEN [usage |-> usage, active |-> active, ok |-> FALSE,
              reason |-> [kind |-> "in_progress", text |-> CONCURRENT_MSG]]
        ELSE IF QuotaReached(used, limit)
             THEN LET rt == get_reset_time(u1, user_id, model, <<clk[2], clk[3]>>)
                      time_until_reset == rt.value - clk[4]
                      model_name == IF model = "veo" THEN "Veo 3.1" ELSE "this model"
                  IN  [usage |-> rt.usage, active |-> active \ {user_id}, ok |-> FALSE,
                       reason |-> [kind |-> "daily_limit", model_name |-> model_name,
                                   limit |-> limit, hours |-> time_until_reset \div 3600,
                                   minutes |-> (time_until_reset % 3600) \div 60]]
             ELSE [usage |-> u1, active |-> active \ {user_id}, ok |-> TRUE,
                   reason |-> [kind |-> "none"]]

\* clk = <<pruning, get_reset_time's pruning, get_reset_time's now, the
\* datetime.now() that is subtracted>>.
can_generate(usage, active, user_id, model, clk) ==
    IF user_id \in active
    THEN [usage |-> usage, active |-> active, ok |-> FALSE, reason |-> [kind |-> "in_progress", text |-> CONCURRENT_MSG]]
    ELSE LET u1 == clean_old_timestamps(usage, user_id, model, clk[1])
             limit == get_model_limit(model)
             used == Len(u1[user_id][model])
         IN  IF QuotaReached(used, limit)
             THEN LET rt == get_reset_time(u1, user_id, model, <<clk[2], clk[3]>>)
                      time_until_reset == rt.value - clk[4]
                      hours == time_until_reset \div 3600
                      minutes == (time_until_reset % 3600) \div 60
                      model_name == IF model = "veo" THEN "Veo 3.1" ELSE "this model"
                  IN  [usage |-> rt.usage, active |-> active, ok |-> FALSE,
                       reason |-> [kind |-> "daily_limit", model_name |-> model_name,
                                   limit |-> limit, hours |-> hours, minutes |-> minutes]]
             ELSE [usage |-> u1, active |-> active, ok |-> TRUE, reason |-> [kind |-> "none"]]

\* Mutant: the user is not marked active.
acquire_no_mark(usage, active, user_id, model, clk) ==
    LET cg == can_generate(usage, active, user_id, model, clk)
    IN  IF ~cg.ok
        THEN [usage |-> cg.usage, active |-> active, ok |-> FALSE]
        ELSE [usage |-> [cg.usage EXCEPT ![user_id][model] = Append(@, clk[5])],
              active |-> active, ok |-> TRUE]

\* Mutant: the generation is not recorded in the log.
acquire_no_record(usage, active, user_id, model, clk) ==
    LET cg == can_generate(usage, active, user_id, model, clk)
    IN  IF ~cg.ok
        THEN [usage |-> cg.usage, active |-> active, ok |-> FALSE]
        ELSE [usage |-> cg.usage, active |-> active \cup {user_id}, ok |-> TRUE]

\* Mutant: a key the limits table does not hold is logged under "default".
acquire_default_log(usage, active, user_id, model, clk) ==
    LET cg == can_generate(usage, active, user_id, model, clk)
        key == IF model \in DOMAIN MODEL_LIMITS THEN model ELSE "default"
    IN  IF ~cg.ok
        THEN [usage |-> cg.usage, active |-> active, ok |-> FALSE]
        ELSE [usage |-> [cg.usage EXCEPT ![user_id][key] = Append(@, clk[5])],
              active |-> active \cup {user_id}, ok |-> TRUE]

\* Mutant: the generation is recorded twice.
acquire_records_twice(usage, active, user_id, model, clk) ==
    LET cg == can_generate(usage, active, user_id, model, clk)
    IN  IF ~cg.ok
        THEN [usage |-> cg.usage, active |-> active, ok |-> FALSE]
        ELSE [usage |-> [cg.usage EXCEPT ![user_id][model] = Append(Append(@, clk[5]), clk[5])],
              active |-> active \cup {user_id}, ok |-> TRUE]

\* Mutant: the attempt is recorded before the check, also when it is refused.
acquire_records_refused(usage, active, user_id, model, clk) ==
    LET cg == can_generate(usage, active, user_id, model, clk)
        logged == [cg.usage EXCEPT ![user_id][model] = Append(@, clk[5])]
    IN  IF ~cg.ok
        THEN [usage |-> logged, active |-> active, ok |-> FALSE]
        ELSE [usage |-> logged, active |-> active \cup {user_id}, ok |-> TRUE]

\* clk = the four reads of can_generate, then the datetime.now() appended.
acquire(usage, active, user_id, model, clk) ==
    LET cg == can_generate(usage, active, user_id, model, clk)
    IN  IF ~cg.ok
        THEN [usage |-> cg.usage, active |-> active, ok |-> FALSE]
        ELSE [usage |-> [cg.usage EXCEPT ![user_id][model] = Append(@, clk[5])],
              active |-> active \cup {user_id}, ok |-> TRUE]

\* Mutant: the whole active set is cleared.
release_clear(usage, active, user_id) ==
    [usage |-> usage, active |-> {}, raised |-> FALSE]

\* Mutant: set.remove, which raises KeyError when the user is absent.
release_remove(usage, active, user_id) ==
    IF user_id \in active
    THEN [usage |-> usage, active |-> active \ {user_id}, raised |-> FALSE]
    ELSE [usage |-> usage, active |-> active, raised |-> TRUE]

\* Mutant: the slot's generation is refunded, the newest timestamp of each
\* of the user's logs is taken back.
release_refunds(usage, active, user_id) ==
    [usage |-> [usage EXCEPT ![user_id] =
                   [m \in Resources |->
                       IF usage[user_id][m] = <<>> THEN <<>>
                       ELSE SubSeq(usage[user_id][m], 1, Len(usage[user_id][m]) - 1)]],
     active |-> active \ {user_id}, raised |-> FALSE]

\* set.discard: no error when the user is absent.  daily_usage is not touched.
release(usage, active, user_id) ==
    [usage |-> usage, active |-> active \ {user_id}, raised |-> FALSE]

\* Mutant: the generation in flight is subtracted a second time.
get_stats_counts_slot(usage, active, user_id, model, clk) ==
    LET u1 == clean_old_timestamps(usage, user_id, model, clk[1])
        limit == get_model_limit(model)
        used == Len(u1[user_id][model])
        is_active == user_id \in active
        remaining == limit - used - (IF is_active THEN 1 ELSE 0)
        rt == get_reset_time(u1, user_id, model, <<clk[2], clk[3]>>)
    IN  [usage |-> IF used > 0 THEN rt.usage ELSE u1,
         used |-> used, remaining |-> remaining, daily_limit |-> limit,
         is_generating |-> is_active,
         reset_time |-> IF used > 0 THEN <<rt.value>> ELSE <<>>]

\* clk = <<pruning, get_reset_time's pruning, get_reset_time's now>>.
get_stats(usage, active, user_id, model, clk) ==
    LET u1 == clean_old_timestamps(usage, user_id, model, clk[1])
        limit == get_model_limit(model)
        used == Len(u1[user_id][model])
        remaining == limit - used
        is_active == user_id \in active
        rt == get_reset_time(u1, user_id, model, <<clk[2], clk[3]>>)
    IN  [usage |-> IF used > 0 THEN rt.usage ELSE u1,
         used |-> used, remaining |-> remaining, daily_limit |-> limit,
         is_generating |-> is_active,
         reset_time |-> IF used > 0 THEN <<rt.value>> ELSE <<>>]

\* ------------------------------------------------- the limiter's interface

\* A log of n generations made at time 0.
Prefilled(n) == [i \in 1..n |-> 0]

\* The limiter is constructed empty; the second start state is the one it is
\* in after user 1 has completed limit - 1 generations of every model at time 0.
InitUsage(s) ==
    [u \in Users |-> [m \in Resources |->
        IF s = 1 /\ u = 1 THEN Prefilled(get_model_limit(m) - 1) ELSE <<>>]]

\* Two callers of acquire on a host that pre-empts between statements.
Threads == {1, 2}
IdleThreads == [t \in Threads |-> [pc |-> "idle", user |-> 0, model |-> "", ok |-> FALSE]]

\* Two command invocations in one event loop.
Invocations == {1, 2}
IdleTask ==
    [pc |-> "idle", user |-> 0, cmd |-> "", frames |-> 0, acquired |-> FALSE,
     releases |-> 0, submits |-> 0, mod_raised |-> "no", mod_undetermined |-> FALSE,
     moderated |-> "none", slot_failed |-> FALSE]
IdleTasks == [i \in Invocations |-> IdleTask]
\* Task fields that record history and are no variables of the source:
\* acquired (acquire returned true), releases and submits (calls of release
\* and of fal_client.run_async made so far), mod_raised (which moderation
\* call, if any, raised inside: "no", "text", "image"), mod_undetermined (a
\* moderation reply of this invocation was no verdict), moderated ("none"
\* before the first verdict, then "safe" while every verdict was safe, "unsafe"
\* after an unsafe one), slot_failed (/ovi
\* took its "Failed to acquire generation slot" branch).

\* What the remote service reports for a job, and what poll_until_ready
\* hands to its consumer: a position in the queue, a batch of log lines, or
\* one of the two terminal statuses.
Queued(position) == [kind |-> "Queued", position |-> position, logs |-> <<>>]
InProgress(logs) == [kind |-> "InProgress", position |-> 0, logs |-> logs]
Completed == [kind |-> "Completed", position |-> 0, logs |-> <<>>]
Failed == [kind |-> "Failed", position |-> 0, logs |-> <<>>]

Statuses == {Queued(2), Queued(0), InProgress(<<"a", "b">>), Completed, Failed}

Terminal(status) == status.kind \in {"Completed", "Failed"}

\* The finite sequences of responses that end in a terminal status.
Scripts ==
    {sc \in UNION {[1..n -> Statuses] : n \in 1..MaxPolls} : Terminal(sc[Len(sc)])}

\* remote: the responses the service has in store; seen: the statuses the
\* async for loop has bound so far; ended: the loop has run to its end;
\* shown: the queue positions put into the message; submits and results
\* count the calls of client.submit and client.result.
IdleJob ==
    [pc |-> "idle", remote |-> <<>>, seen |-> <<>>, ended |-> FALSE,
     iteration_id |-> 0, shown |-> <<>>, submits |-> 0, results |-> 0,
     outcome |-> "none"]

\* image_url: "none" (None), "empty" (the empty string) or "url"; calls: the
\* checks started so far; replies: what the collaborators gave back to each
\* check; verdicts: what each check returned; result: <<>> or <<the pair
\* returned>>; served: the calls of moderate_request so far.
IdleRequest ==
    [pc |-> "idle", image_url |-> "none", calls |-> <<>>, replies |-> <<>>,
     verdicts |-> <<>>, result |-> <<>>, served |-> 0]

\* body: the response of the error the callback was called with; content:
\* what it passes to edit_original_response; edits: its calls of
\* edit_original_response; shown: the message after an edit that returned;
\* source and result: the argument and the value of a wrap_source_code call.
IdleError ==
    [pc |-> "idle", body |-> [json |-> FALSE, text |-> <<>>, value |-> <<>>],
     content |-> <<>>, edits |-> 0, shown |-> <<>>, source |-> <<>>, result |-> <<>>]

Init ==
    /\ \E s \in {0, 1} : daily_usage = InitUsage(s)
    /\ recorded = daily_usage
    /\ active_users = {}
    /\ now = 0
    /\ held = {}
    /\ acquires = 0
    /\ task = IdleTasks
    /\ thr = IdleThreads
    /\ job = IdleJob
    /\ mreq = IdleRequest
    /\ clock_log = <<>>
    /\ err = IdleError

\* The calls below never suspend: every clock read of one call sees `now`.
Instant(n) == [i \in 1..n |-> now]

Acquire(u, m) ==
    LET r == acquire(daily_usage, active_users, u, m, Instant(5))
    IN  /\ r.ok => acquires < MaxAcquires
        /\ daily_usage' = r.usage
        /\ active_users' = r.active
        /\ recorded' = IF r.ok THEN [recorded EXCEPT ![u][m] = Append(@, now)] ELSE recorded
        /\ held' = IF r.ok THEN held \cup {u} ELSE held
        /\ acquires' = IF r.ok THEN acquires + 1 ELSE acquires
        /\ UNCHANGED <<now, task, thr, job, mreq, clock_log, err>>

Release(u) ==
    LET r == release(daily_usage, active_users, u)
    IN  /\ active_users' = r.active
        /\ daily_usage' = r.usage
        /\ held' = held \ {u}
        /\ UNCHANGED <<now, recorded, acquires, task, thr, job, mreq, clock_log, err>>

CanGenerate(u, m) ==
    LET r == can_generate(daily_usage, active_users, u, m, Instant(4))
    IN  /\ daily_usage' = r.usage
        /\ active_users' = r.active
        /\ UNCHANGED <<now, recorded, held, acquires, task, thr, job, mreq, clock_log, err>>

GetStats(u, m) ==
    LET r == get_stats(daily_usage, active_users, u, m, Instant(3))
    IN  /\ daily_usage' = r.usage
        /\ UNCHANGED <<active_users, now, recorded, held, acquires, task, thr, job, mreq, clock_log, err>>

GetRemaining(u, m) ==
    LET r == get_remaining_generations(daily_usage, u, m, now)
    IN  /\ daily_usage' = r.usage
        /\ UNCHANGED <<active_users, now, recorded, held, acquires, task, thr, job, mreq, clock_log, err>>

GetResetTime(u, m) ==
    LET r == get_reset_time(daily_usage, u, m, Instant(2))
    IN  /\ daily_usage' = r.usage
        /\ UNCHANGED <<active_users, now, recorded, held, acquires, task, thr, job, mreq, clock_log, err>>

\* The wall clock moves forward between calls.
Tick ==
    /\ \E t \in Times : t > now /\ now' = t
    /\ UNCHANGED <<daily_usage, active_users, recorded, held, acquires, task, thr, job, mreq, clock_log, err>>

Next ==
    \/ \E u \in Users, m \in Resources : Acquire(u, m)
    \/ \E u \in Users : Release(u)
    \/ \E u \in Users, m \in Resources : CanGenerate(u, m)
    \/ \E u \in Users, m \in Resources : GetStats(u, m)
    \/ \E u \in Users, m \in Resources : GetRemaining(u, m)
    \/ \E u \in Users, m \in Resources : GetResetTime(u, m)
    \/ Tick

Spec == Init /\ [][Next]_vars

\* ------------------------------------- acquire on a multi-threaded host
\* acquire holds no lock and its statements are separate steps of the
\* interpreter: the can_generate call (line 112), active_users.add (line 118)
\* and the append (line 121).  A thread may be pre-empted between them.

Busy == {t \in Threads : thr[t].pc \in {"check", "mark", "record"}}

T_Call(t, u, m) ==
    /\ thr[t].pc = "idle"
    /\ acquires + Cardinality(Busy) < MaxAcquires
    /\ thr' = [thr EXCEPT ![t] = [pc |-> "check", user |-> u, model |-> m, ok |-> FALSE]]
    /\ UNCHANGED <<daily_usage, active_users, now, recorded, held, acquires, task, job, mreq, clock_log, err>>

T_Check(t) ==
    /\ thr[t].pc = "check"
    /\ LET cg == can_generate(daily_usage, active_users, thr[t].user, thr[t].model, Instant(4))
       IN  /\ daily_usage' = cg.usage
           /\ thr' = [thr EXCEPT ![t].pc = IF cg.ok THEN "mark" ELSE "returned"]
    /\ UNCHANGED <<active_users, now, recorded, held, acquires, task, job, mreq, clock_log, err>>

T_Mark(t) ==
    /\ thr[t].pc = "mark"
    /\ active_users' = active_users \cup {thr[t].user}
    /\ thr' = [thr EXCEPT ![t].pc = "record"]
    /\ UNCHANGED <<daily_usage, now, recorded, held, acquires, task, job, mreq, clock_log, err>>

T_Record(t) ==
    /\ thr[t].pc = "record"
    /\ daily_usage' = [daily_usage EXCEPT ![thr[t].user][thr[t].model] = Append(@, now)]
    /\ recorded' = [recorded EXCEPT ![thr[t].user][thr[t].model] = Append(@, now)]
    /\ held' = held \cup {thr[t].user}
    /\ acquires' = acquires + 1
    /\ thr' = [thr EXCEPT ![t].pc = "returned", ![t].ok = TRUE]
    /\ UNCHANGED <<active_users, now, task, job, mreq, clock_log, err>>

\* The caller is done with the result: it releases the slot it got, or
\* just goes on after a refusal.
T_Finish(t) ==
    /\ thr[t].pc = "returned"
    /\ IF thr[t].ok
       THEN /\ active_users' = release(daily_usage, active_users, thr[t].user).active
            /\ daily_usage' = release(daily_usage, active_users, thr[t].user).usage
            /\ held' = held \ {thr[t].user}
       ELSE UNCHANGED <<daily_usage, active_users, held>>
    /\ thr' = [thr EXCEPT ![t] = IdleThreads[t]]
    /\ UNCHANGED <<now, recorded, acquires, task, job, mreq, clock_log, err>>

NextThreads ==
    \/ \E t \in Threads, u \in Users, m \in Resources : T_Call(t, u, m)
    \/ \E t \in Threads : T_Check(t)
    \/ \E t \in Threads : T_Mark(t)
    \/ \E t \in Threads : T_Record(t)
    \/ \E t \in Threads : T_Finish(t)
    \/ Tick

\* The limiter as constructed (empty).
InitFresh == Init /\ daily_usage = InitUsage(0)

SpecThreads == InitFresh /\ [][NextThreads]_vars

\* ------------------------------------------------------------- moderation
\* What the Gemini call gives back.  kind: "raises" (generate_content_async or
\* response.text raises), "object" (the reply parses to a JSON object; safe
\* tells whether its "safe" entry is truthy, falsy or absent), "not_object"
\* (valid JSON that is no object: parsed.get raises AttributeError),
\* "unparseable" (json.loads raises; alarm tells whether the text holds one
\* of the words "unsafe", "violat", '"safe": false').
Reply(kind, safe, alarm) == [kind |-> kind, safe |-> safe, alarm |-> alarm]

Replies ==
    {Reply("raises", "absent", FALSE), Reply("not_object", "absent", FALSE)}
    \cup {Reply("object", sf, FALSE) : sf \in {"true", "false", "absent"}}
    \cup {Reply("unparseable", "absent", al) : al \in BOOLEAN}

\* The replies that are no verdict: text that json.loads rejects, JSON that
\* is no object, and an object without a "safe" entry.
Undetermined(reply) ==
    \/ reply.kind \in {"unparseable", "not_object"}
    \/ reply.kind = "object" /\ reply.safe = "absent"

\* The image download and PIL.Image.open of moderate_image.
Fetches == {"ok", "download_raises", "decode_raises"}

UNABLE_TEXT == "Unable to verify content safety. Please try again."
UNABLE_IMAGE == "Unable to verify image safety. Please try again."

\* Mutant of moderate_text: the outer except lets the request through.
moderate_text_fail_open(reply) ==
    CASE reply.kind = "raises" -> [safe |-> TRUE, reason |-> ""]
      [] reply.kind = "not_object" -> [safe |-> TRUE, reason |-> ""]
      [] reply.kind = "object" ->
            IF reply.safe = "false"
            THEN [safe |-> FALSE, reason |-> "reason given by the model"]
            ELSE [safe |-> TRUE, reason |-> ""]
      [] OTHER ->
            IF reply.alarm
            THEN [safe |-> FALSE, reason |-> "Content may violate our content policy"]
            ELSE [safe |-> TRUE, reason |-> ""]

moderate_text(reply) ==
    CASE reply.kind = "raises" -> [safe |-> FALSE, reason |-> UNABLE_TEXT]
      [] reply.kind = "not_object" -> [safe |-> FALSE, reason |-> UNABLE_TEXT]
      [] reply.kind = "object" ->
            IF reply.safe = "false"
            THEN [safe |-> FALSE, reason |-> "reason given by the model"]
            ELSE [safe |-> TRUE, reason |-> ""]
      [] OTHER ->
            IF reply.alarm
            THEN [safe |-> FALSE, reason |-> "Content may violate our content policy"]
            ELSE [safe |-> TRUE, reason |-> ""]

moderate_image(fetch, reply) ==
    CASE fetch # "ok" -> [safe |-> FALSE, reason |-> UNABLE_IMAGE]
      [] reply.kind = "raises" -> [safe |-> FALSE, reason |-> UNABLE_IMAGE]
      [] reply.kind = "not_object" -> [safe |-> FALSE, reason |-> UNABLE_IMAGE]
      [] reply.kind = "object" ->
            IF reply.safe = "false"
            THEN [safe |-> FALSE, reason |-> "reason given by the model"]
            ELSE [safe |-> TRUE, reason |-> ""]
      [] OTHER ->
            IF reply.alarm
            THEN [safe |-> FALSE, reason |-> "Image may contain inappropriate content"]
            ELSE [safe |-> TRUE, reason |-> ""]


\* ------------------------------------------------------------ the commands
\* /veo, /wan and /ovi run as coroutines of one event loop: a task runs from
\* one await to the next without interruption.  A task's pc names the await
\* it is suspended in.

Commands == {"veo", "wan", "ovi"}

\* The resource key a command passes to the limiter.
model_of(cmd) == IF cmd = "veo" THEN "veo" ELSE "default"

Modes(cmd) ==
    IF cmd = "veo"
    THEN {"text-to-video", "image-to-video", "first-last-frame"}
    ELSE {"text-to-video", "image-to-video"}

\* The usage figures a rejection embed shows.
Shown(st) == [used |-> st.used, daily_limit |-> st.daily_limit, remaining |-> st.remaining]

\* Mutant: /ovi checks the "default" key and acquires under the "veo" key.
admit_keys_differ(usage, active, cmd, user_id, clk) ==
    LET model == model_of(cmd)
    IN  IF cmd = "ovi"
        THEN LET cg == can_generate(usage, active, user_id, model, clk[1])
             IN  IF ~cg.ok
                 THEN LET st == get_stats(cg.usage, active, user_id, model, clk[2])
                      IN  [usage |-> st.usage, active |-> active, acquired |-> FALSE,
                           slot_failed |-> FALSE, reason |-> cg.reason, shown |-> <<Shown(st)>>]
                 ELSE LET a == acquire(cg.usage, active, user_id, "veo", clk[2])
                      IN  [usage |-> a.usage, active |-> a.active,
                           acquired |-> a.ok, slot_failed |-> ~a.ok,
                           reason |-> [kind |-> IF a.ok THEN "none" ELSE "slot_failed"],
                           shown |-> <<>>]
        ELSE LET a == acquire(usage, active, user_id, model, clk[1])
             IN  IF a.ok
                 THEN [usage |-> a.usage, active |-> a.active, acquired |-> TRUE,
                       slot_failed |-> FALSE, reason |-> [kind |-> "none"], shown |-> <<>>]
                 ELSE LET st == get_stats(a.usage, active, user_id, model, clk[2])
                          cg == can_generate(st.usage, active, user_id, model, clk[3])
                      IN  [usage |-> cg.usage, active |-> active, acquired |-> FALSE,
                           slot_failed |-> FALSE, reason |-> cg.reason, shown |-> <<Shown(st)>>]

\* The code from the top of command to the try statement.  /veo and /wan
\* call acquire, and on refusal get_stats and can_generate for the message;
\* /ovi calls can_generate (and get_stats on refusal), then acquire.
\* clk = <<the clock reads of the first call, of the second, of the third>>.
\* reason is the description of the rejection message ("slot_failed" is
\* /ovi's "Failed to acquire generation slot"), shown the figures beside it.
admit(usage, active, cmd, user_id, clk) ==
    LET model == model_of(cmd)
    IN  IF cmd = "ovi"
        THEN LET cg == can_generate(usage, active, user_id, model, clk[1])
             IN  IF ~cg.ok
                 THEN LET st == get_stats(cg.usage, active, user_id, model, clk[2])
                      IN  [usage |-> st.usage, active |-> active, acquired |-> FALSE,
                           slot_failed |-> FALSE, reason |-> cg.reason, shown |-> <<Shown(st)>>]
                 ELSE LET a == acquire(cg.usage, active, user_id, model, clk[2])
                      IN  [usage |-> a.usage, active |-> a.active,
                           acquired |-> a.ok, slot_failed |-> ~a.ok,
                           reason |-> [kind |-> IF a.ok THEN "none" ELSE "slot_failed"],
                           shown |-> <<>>]
        ELSE LET a == acquire(usage, active, user_id, model, clk[1])
             IN  IF a.ok
                 THEN [usage |-> a.usage, active |-> a.active, acquired |-> TRUE,
                       slot_failed |-> FALSE, reason |-> [kind |-> "none"], shown |-> <<>>]
                 ELSE LET st == get_stats(a.usage, active, user_id, model, clk[2])
                          cg == can_generate(st.usage, active, user_id, model, clk[3])
                      IN  [usage |-> cg.usage, active |-> active, acquired |-> FALSE,
                           slot_failed |-> FALSE, reason |-> cg.reason, shown |-> <<Shown(st)>>]

\* The mode-specific requirements checked first inside the try.
valid_request(cmd, mode, start_frame, last_frame) ==
    IF cmd = "veo"
    THEN /\ ~(mode = "image-to-video" /\ ~start_frame)
         /\ ~(mode = "first-last-frame" /\ (~start_frame \/ ~last_frame))
    ELSE ~(mode = "image-to-video" /\ ~start_frame)

\* The number of images the command moderates: every attachment given.  The
\* task's frames field counts the attachments not yet moderated safe.
frames_of(cmd, start_frame, last_frame) ==
    (IF start_frame THEN 1 ELSE 0) + (IF cmd = "veo" /\ last_frame THEN 1 ELSE 0)

\* Where a task goes when the await it is suspended in ends with `outcome`.
\* "finally" is the finally clause (release, then the coroutine ends);
\* "exit" ends the coroutine outside the try statement.  "cancelled" is a
\* BaseException such as CancelledError, which except Exception lets pass.
\* Mutant: a failure of the error report leaves the command without release
\* (a try/except with no finally clause).
next_pc_no_finally(pc, outcome, frames) ==
    CASE pc = "send_rejection" -> "exit"
      [] outcome = "cancelled" -> "exit"
      [] pc = "followup_send" -> IF outcome = "ok" THEN "finally" ELSE "exit"
      [] pc = "edit_error" -> IF outcome = "ok" THEN "finally" ELSE "followup_send"
      [] outcome = "raise" -> "edit_error"
      [] pc = "send_invalid" -> "finally"
      [] pc = "send_checking" -> "moderate_text"
      [] pc \in {"moderate_text", "moderate_image"} ->
            IF outcome = "unsafe" THEN "edit_flagged"
            ELSE IF frames > 0 THEN "moderate_image" ELSE "edit_generating"
      [] pc = "edit_flagged" -> "finally"
      [] pc = "edit_generating" -> "run_async"
      [] pc = "run_async" -> IF outcome = "url" THEN "edit_downloading" ELSE "edit_no_url"
      [] pc = "edit_no_url" -> "finally"
      [] pc = "edit_downloading" -> "download"
      [] pc = "download" -> IF outcome = "ok" THEN "edit_result" ELSE "edit_fallback"
      [] OTHER -> "finally"

\* Mutant: the rejection is sent inside the try statement, so the finally
\* clause runs for an invocation that was refused.
next_pc_reject_in_try(pc, outcome, frames) ==
    CASE pc = "send_rejection" -> "finally"
      [] outcome = "cancelled" -> "finally"
      [] pc = "followup_send" -> "finally"
      [] pc = "edit_error" -> IF outcome = "ok" THEN "finally" ELSE "followup_send"
      [] outcome = "raise" -> "edit_error"
      [] pc = "send_invalid" -> "finally"
      [] pc = "send_checking" -> "moderate_text"
      [] pc \in {"moderate_text", "moderate_image"} ->
            IF outcome = "unsafe" THEN "edit_flagged"
            ELSE IF frames > 0 THEN "moderate_image" ELSE "edit_generating"
      [] pc = "edit_flagged" -> "finally"
      [] pc = "edit_generating" -> "run_async"
      [] pc = "run_async" -> IF outcome = "url" THEN "edit_downloading" ELSE "edit_no_url"
      [] pc = "edit_no_url" -> "finally"
      [] pc = "edit_downloading" -> "download"
      [] pc = "download" -> IF outcome = "ok" THEN "edit_result" ELSE "edit_fallback"
      [] OTHER -> "finally"

\* Mutant: the attachments are not moderated.
next_pc_skip_images(pc, outcome, frames) ==
    CASE pc = "send_rejection" -> "exit"
      [] outcome = "cancelled" -> "finally"
      [] pc = "followup_send" -> "finally"
      [] pc = "edit_error" -> IF outcome = "ok" THEN "finally" ELSE "followup_send"
      [] outcome = "raise" -> "edit_error"
      [] pc = "send_invalid" -> "finally"
      [] pc = "send_checking" -> "moderate_text"
      [] pc \in {"moderate_text", "moderate_image"} ->
            IF outcome = "unsafe" THEN "edit_flagged" ELSE "edit_generating"
      [] pc = "edit_flagged" -> "finally"
      [] pc = "edit_generating" -> "run_async"
      [] pc = "run_async" -> IF outcome = "url" THEN "edit_downloading" ELSE "edit_no_url"
      [] pc = "edit_no_url" -> "finally"
      [] pc = "edit_downloading" -> "download"
      [] pc = "download" -> IF outcome = "ok" THEN "edit_result" ELSE "edit_fallback"
      [] OTHER -> "finally"

next_pc(pc, outcome, frames) ==
    CASE pc = "send_rejection" -> "exit"
      [] outcome = "cancelled" -> "finally"
      [] pc = "followup_send" -> "finally"
      [] pc = "edit_error" -> IF outcome = "ok" THEN "finally" ELSE "followup_send"
      [] outcome = "raise" -> "edit_error"
      [] pc = "send_invalid" -> "finally"
      [] pc = "send_checking" -> "moderate_text"
      [] pc \in {"moderate_text", "moderate_image"} ->
            IF outcome = "unsafe" THEN "edit_flagged"
            ELSE IF frames > 0 THEN "moderate_image" ELSE "edit_generating"
      [] pc = "edit_flagged" -> "finally"
      [] pc = "edit_generating" -> "run_async"
      [] pc = "run_async" -> IF outcome = "url" THEN "edit_downloading" ELSE "edit_no_url"
      [] pc = "edit_no_url" -> "finally"
      [] pc = "edit_downloading" -> "download"
      [] pc = "download" -> IF outcome = "ok" THEN "edit_result" ELSE "edit_fallback"
      [] OTHER -> "finally"

\* How the await at pc can end, a moderation verdict aside.  The moderation
\* functions catch Exception themselves: they return a verdict or are cancelled.
Outcomes(pc) ==
    CASE pc \in {"moderate_text", "moderate_image"} -> {"cancelled"}
      [] pc = "run_async" -> {"url", "no_url", "raise", "cancelled"}
      [] pc = "download" -> {"ok", "http_error", "raise", "cancelled"}
      [] OTHER -> {"ok", "raise", "cancelled"}

Start(i, u, cmd, mode, start_frame, last_frame) ==
    LET a == admit(daily_usage, active_users, cmd, u, <<Instant(5), Instant(5), Instant(5)>>)
        m == model_of(cmd)
    IN  /\ task[i].pc = "idle"
        /\ mode \in Modes(cmd)
        /\ cmd # "veo" => ~last_frame
        /\ a.acquired => acquires < MaxAcquires
        /\ task' = [task EXCEPT ![i] =
              [pc |-> IF ~a.acquired THEN "send_rejection"
                      ELSE IF ~valid_request(cmd, mode, start_frame, last_frame)
                           THEN "send_invalid" ELSE "send_checking",
               user |-> u, cmd |-> cmd,
               frames |-> frames_of(cmd, start_frame, last_frame),
               acquired |-> a.acquired, releases |-> 0, submits |-> 0,
               mod_raised |-> "no", mod_undetermined |-> FALSE,
               moderated |-> "none", slot_failed |-> a.slot_failed]]
        /\ daily_usage' = a.usage
        /\ active_users' = a.active
        /\ recorded' = IF a.acquired THEN [recorded EXCEPT ![u][m] = Append(@, now)] ELSE recorded
        /\ held' = IF a.acquired THEN held \cup {u} ELSE held
        /\ acquires' = IF a.acquired THEN acquires + 1 ELSE acquires
        /\ UNCHANGED <<now, thr, job, mreq, clock_log, err>>

\* The task runs from the end of its await to its next await, or to its end.
Advance(i, outcome, raised, undetermined) ==
    LET t == task[i]
        left == IF t.pc = "moderate_image" /\ outcome = "safe"
                THEN t.frames - 1 ELSE t.frames
        n == next_pc(t.pc, outcome, left)
        m == model_of(t.cmd)
    IN  /\ task' = [task EXCEPT ![i] =
              [t EXCEPT !.pc = IF n \in {"finally", "exit"} THEN "done" ELSE n,
                        !.frames = left,
                        !.releases = @ + (IF n = "finally" THEN 1 ELSE 0),
                        !.submits = @ + (IF n = "run_async" THEN 1 ELSE 0),
                        !.mod_raised = IF raised # "no" THEN raised ELSE @,
                        !.mod_undetermined = @ \/ undetermined,
                        !.moderated = IF outcome \in {"safe", "unsafe"} THEN outcome ELSE @]]
        /\ active_users' = IF n = "finally"
                           THEN release(daily_usage, active_users, t.user).active
                           ELSE active_users
        /\ held' = IF n = "finally" THEN held \ {t.user} ELSE held
        /\ daily_usage' = IF n \in {"edit_result", "edit_fallback"}
                          THEN get_stats(daily_usage, active_users, t.user, m, Instant(3)).usage
                          ELSE IF n = "finally"
                               THEN release(daily_usage, active_users, t.user).usage
                               ELSE daily_usage
        /\ UNCHANGED <<now, recorded, acquires, thr, job, mreq, clock_log, err>>

\* A Discord call, the job or the download returns or raises.
AwaitEnds(i, outcome) ==
    /\ task[i].pc \notin {"idle", "done"}
    /\ outcome \in Outcomes(task[i].pc)
    /\ Advance(i, outcome, "no", FALSE)

\* moderate_text or moderate_image returns its verdict.
ModerationEnds(i, fetch, reply) ==
    /\ task[i].pc \in {"moderate_text", "moderate_image"}
    /\ task[i].pc = "moderate_text" => fetch = "ok"
    /\ LET v == IF task[i].pc = "moderate_text"
                THEN moderate_text(reply) ELSE moderate_image(fetch, reply)
           raised == fetch # "ok" \/ reply.kind = "raises"
       IN  Advance(i, IF v.safe THEN "safe" ELSE "unsafe",
                   IF ~raised THEN "no"
                   ELSE IF task[i].pc = "moderate_text" THEN "text" ELSE "image",
                   fetch = "ok" /\ Undetermined(reply))

Step(i) ==
    \/ \E o \in {"ok", "raise", "cancelled", "url", "no_url", "http_error"} : AwaitEnds(i, o)
    \/ \E f \in Fetches, r \in Replies : ModerationEnds(i, f, r)

NextBot ==
    \/ \E i \in Invocations, u \in Users, cmd \in Commands, mode \in Modes("veo"),
          sf \in BOOLEAN, lf \in BOOLEAN : Start(i, u, cmd, mode, sf, lf)
    \/ \E i \in Invocations : Step(i)

\* The clock stands still in this specification: what the commands do to the
\* active set and to the job does not depend on it.
SpecBot == Init /\ [][NextBot]_vars

\* Every await of a started invocation ends: the external call returns or
\* raises.  The limiter starts as constructed.
FairBot ==
    /\ InitFresh
    /\ [][NextBot]_vars
    /\ \A i \in Invocations : WF_vars(Step(i))

\* ------------------------------------------- the clock during a prologue
\* datetime.now() is read anew by every limiter call, and several times
\* inside can_generate: the wall clock may move between two reads.

\* The reads of one call that finds the clock at t throughout.
At(t) == <<t, t, t, t, t>>

\* The times at which the up to three limiter calls of a prologue run.
Phases ==
    {p \in Times \X Times \X Times : now <= p[1] /\ p[1] <= p[2] /\ p[2] <= p[3]}

\* The four reads of one can_generate call, none earlier than the last.
Reads ==
    {c \in [1..4 -> Times] : now <= c[1] /\ \A i \in 1..3 : c[i] <= c[i + 1]}

\* The number of limiter calls a prologue makes.
calls_made(cmd, acquired) ==
    IF cmd = "ovi" THEN 2 ELSE IF acquired THEN 1 ELSE 3

\* The prologue of a command, its limiter calls made at the times p.
K_Start(i, u, cmd, p) ==
    LET a == admit(daily_usage, active_users, cmd, u, <<At(p[1]), At(p[2]), At(p[3])>>)
        m == model_of(cmd)
        n == calls_made(cmd, a.acquired)
        at_acquire == IF cmd = "ovi" THEN p[2] ELSE p[1]
    IN  /\ task[i].pc = "idle"
        /\ a.acquired => acquires < MaxAcquires
        /\ task' = [task EXCEPT ![i] =
              [IdleTask EXCEPT !.pc = IF a.acquired THEN "send_checking" ELSE "send_rejection",
                               !.user = u, !.cmd = cmd, !.acquired = a.acquired,
                               !.slot_failed = a.slot_failed]]
        /\ daily_usage' = a.usage
        /\ active_users' = a.active
        /\ recorded' = IF a.acquired
                       THEN [recorded EXCEPT ![u][m] = Append(@, at_acquire)] ELSE recorded
        /\ held' = IF a.acquired THEN held \cup {u} ELSE held
        /\ acquires' = IF a.acquired THEN acquires + 1 ELSE acquires
        /\ now' = p[n]
        /\ clock_log' = SubSeq(<<p[1], p[2], p[3]>>, 1, n)
        /\ UNCHANGED <<thr, job, mreq, err>>

\* The invocation runs to its end: through the finally clause when it had
\* entered the try statement.
K_End(i) ==
    LET t == task[i]
        r == release(daily_usage, active_users, t.user)
    IN  /\ t.pc \notin {"idle", "done"}
        /\ task' = [task EXCEPT ![i] =
              [t EXCEPT !.pc = "done", !.releases = IF t.acquired THEN 1 ELSE 0]]
        /\ active_users' = IF t.acquired THEN r.active ELSE active_users
        /\ daily_usage' = IF t.acquired THEN r.usage ELSE daily_usage
        /\ held' = IF t.acquired THEN held \ {t.user} ELSE held
        /\ UNCHANGED <<now, recorded, acquires, thr, job, mreq, clock_log, err>>

\* One call of can_generate during which the clock may move.
K_CanGenerate(u, m, clk) ==
    LET r == can_generate(daily_usage, active_users, u, m, clk)
    IN  /\ daily_usage' = r.usage
        /\ active_users' = r.active
        /\ now' = clk[4]
        /\ clock_log' = clk
        /\ UNCHANGED <<recorded, held, acquires, task, thr, job, mreq, err>>

NextClock ==
    \/ \E i \in Invocations, u \in Users, cmd \in Commands, p \in Phases : K_Start(i, u, cmd, p)
    \/ \E i \in Invocations : K_End(i)
    \/ \E u \in Users, m \in Resources, clk \in Reads : K_CanGenerate(u, m, clk)

SpecClock == Init /\ [][NextClock]_vars

\* ------------------------------------------------------ the error report
\* Text is a sequence of characters.  on_error builds the message shown for
\* an HTTPStatusError; wrap_source_code puts a text into a code fence and
\* cuts long texts.

\* The character U+0060, which a string of this language cannot hold.
BACKTICK == "U+0060"
FENCE_OPEN == <<BACKTICK, BACKTICK, BACKTICK, "\n">>
FENCE_CLOSE == <<BACKTICK, BACKTICK, BACKTICK>>
ELLIPSIS == <<"[", ".", ".", ".", "]">>

\* Mutant: the test is len(source) > 1500.
wrap_source_code_strict(source) ==
    LET n == Len(source)
        cut == IF n > 1500
               THEN SubSeq(source, 1, 300) \o ELLIPSIS \o SubSeq(source, n - 1199, n)
               ELSE source
    IN  FENCE_OPEN \o cut \o FENCE_CLOSE

\* source[:300] + "[...]" + source[-1200:] when len(source) >= 1500.
wrap_source_code(source) ==
    LET n == Len(source)
        cut == IF n >= 1500
               THEN SubSeq(source, 1, 300) \o ELLIPSIS \o SubSeq(source, n - 1199, n)
               ELSE source
    IN  FENCE_OPEN \o cut \o FENCE_CLOSE

\* What json.dumps writes for one character of a string.
EscChar(c) ==
    IF c = "\\" THEN <<"\\", "\\">>
    ELSE IF c = "\"" THEN <<"\\", "\"">>
    ELSE << c >>

\* The characters of a string as json.dumps writes them between the quotes.
RECURSIVE Esc(_)
Esc(str) ==
    IF Len(str) = 0 THEN <<>>
    ELSE IF Len(str) = 1 THEN EscChar(str[1])
    ELSE LET h == Len(str) \div 2
         IN  Esc(SubSeq(str, 1, h)) \o Esc(SubSeq(str, h + 1, Len(str)))

ERROR_KEY == <<"e", "r", "r", "o", "r">>
DETAIL_KEY == <<"d", "e", "t", "a", "i", "l">>

\* json.dumps(data, indent=4) of an object with one string member.
json_dumps(data) ==
    <<"{", "\n", " ", " ", " ", " ", "\"">> \o data.key \o <<"\"", ":", " ", "\"">>
        \o Esc(data.value) \o <<"\"", "\n", "}">>

\* A response body.  json: the body is the JSON text of an object with the
\* member "detail" (value: its string); otherwise the body is the text
\* itself, which is no JSON document.
Body(json, str) ==
    [json |-> json,
     text |-> IF json
              THEN <<"{", "\"", "d", "e", "t", "a", "i", "l", "\"", ":", " ", "\"">> \o Esc(str) \o <<"\"", "}">>
              ELSE str,
     value |-> IF json THEN str ELSE <<>>]

\* exception.response.json(): the parsed document, or json.JSONDecodeError.
response_json(body) ==
    IF body.json
    THEN [raised |-> FALSE, data |-> [key |-> DETAIL_KEY, value |-> body.value]]
    ELSE [raised |-> TRUE, data |-> [key |-> <<>>, value |-> <<>>]]

MESSAGE_HEAD ==
    <<"S", "o", "m", "e", "t", "h", "i", "n", "g", " ", "w", "e",
      "n", "t", " ", "w", "r", "o", "n", "g", " ", "d", "u", "r",
      "i", "n", "g", " ", "y", "o", "u", "r", " ", "r", "e", "q",
      "u", "e", "s", "t", ".", "\n">>

\* Mutant: the except branch reports an error without the response text.
on_error_message_no_text(body) ==
    LET parsed == response_json(body)
        data == IF parsed.raised THEN [key |-> ERROR_KEY, value |-> <<>>]
                ELSE parsed.data
    IN  MESSAGE_HEAD \o wrap_source_code(json_dumps(data))

\* The content the callback passes to edit_original_response.
on_error_message(body) ==
    LET parsed == response_json(body)
        data == IF parsed.raised THEN [key |-> ERROR_KEY, value |-> body.text]
                ELSE parsed.data
    IN  MESSAGE_HEAD \o wrap_source_code(json_dumps(data))

\* The texts tried: of the lengths within Slack of the lengths at which
\* wrap_source_code or the dump of an error changes its form (a dump is 19
\* characters longer than its string, and one more for every backslash),
\* and of twice the limit, with a backslash at every k-th place (k = 0: none).
Near(t) == {n \in (t - Slack)..(t + Slack) : n >= 0}
Lengths == UNION {Near(t) : t \in {1, 300, 988, 1200, 1296, 1481, 1500, 3000}}
Patterns == {0, 2, 7}
Str(n, k) ==
    [i \in 1..n |-> IF k > 0 /\ i % k = 0 THEN "\\"
                    ELSE IF i % 2 = 0 THEN "a" ELSE "b"]
Strings == {Str(n, k) : n \in Lengths, k \in Patterns}

\* The callback is called with an HTTPStatusError and runs to its await.
E_Call(json, str) ==
    /\ err.pc = "idle"
    /\ err' = [IdleError EXCEPT !.pc = "edit_original_response",
                                !.body = Body(json, str),
                                !.content = on_error_message(Body(json, str)),
                                !.edits = 1]
    /\ UNCHANGED <<daily_usage, active_users, now, recorded, held, acquires, task, thr,
                   job, mreq, clock_log>>

\* edit_original_response returns or raises; the callback ends with it.
E_EditEnds(outcome) ==
    /\ err.pc = "edit_original_response"
    /\ err' = [err EXCEPT !.pc = IF outcome = "ok" THEN "done" ELSE "raised",
                          !.shown = IF outcome = "ok" THEN err.content ELSE <<>>]
    /\ UNCHANGED <<daily_usage, active_users, now, recorded, held, acquires, task, thr,
                   job, mreq, clock_log>>

\* wrap_source_code is called with a text.
W_Call(source) ==
    /\ err.pc = "idle"
    /\ err' = [IdleError EXCEPT !.pc = "returned", !.source = source,
                                !.result = wrap_source_code(source)]
    /\ UNCHANGED <<daily_usage, active_users, now, recorded, held, acquires, task, thr,
                   job, mreq, clock_log>>

\* The caller has taken the result or the exception and goes on.
E_Return ==
    /\ err.pc \in {"done", "raised", "returned"}
    /\ err' = IdleError
    /\ UNCHANGED <<daily_usage, active_users, now, recorded, held, acquires, task, thr,
                   job, mreq, clock_log>>

NextError ==
    \/ \E json \in BOOLEAN, str \in Strings : E_Call(json, str)
    \/ \E outcome \in {"ok", "raise"} : E_EditEnds(outcome)
    \/ \E source \in Strings : W_Call(source)
    \/ E_Return

SpecError == InitFresh /\ [][NextError]_vars

\* ---------------------------------------------------------- the remote job
\* submit_interactive_task drives one job through the queue client:
\* submit, the poll_until_ready loop, result.  The queue client is not part
\* of these sources; poll_until_ready follows its contract: it asks the
\* service for the status again and again, hands each status on as it comes,
\* and stops once it has handed on a terminal one.

\* Mutant: the generator stops as soon as the job has left the queue.
poll_until_ready_stops_early(remote, emitted) ==
    IF emitted # <<>> /\ emitted[Len(emitted)].kind # "Queued"
    THEN [ended |-> TRUE, event |-> Completed]
    ELSE [ended |-> FALSE, event |-> remote[Len(emitted) + 1]]

\* Mutant: a queue position is skipped when a newer response is at hand.
poll_until_ready_skips(remote, emitted) ==
    IF emitted # <<>> /\ Terminal(emitted[Len(emitted)])
    THEN [ended |-> TRUE, event |-> Completed]
    ELSE LET n == Len(emitted) + 1
         IN  [ended |-> FALSE,
              event |-> IF n < Len(remote) /\ remote[n].kind = "Queued" /\ emitted # <<>>
                        THEN remote[n + 1] ELSE remote[n]]

\* What the generator does when the loop asks for the next item, after it
\* has handed on `emitted`: it is exhausted, or it hands on the next response.
poll_until_ready(remote, emitted) ==
    IF emitted # <<>> /\ Terminal(emitted[Len(emitted)])
    THEN [ended |-> TRUE, event |-> Completed]
    ELSE [ended |-> FALSE, event |-> remote[Len(emitted) + 1]]

J_Call(script) ==
    /\ job.pc = "idle"
    /\ job' = [job EXCEPT !.pc = "submit", !.remote = script, !.submits = @ + 1]
    /\ UNCHANGED <<daily_usage, active_users, now, recorded, held, acquires, task, thr, mreq, clock_log, err>>

\* Mutant: client.result is called after the first pass through the loop.
LoopOn_result_early(j) ==
    [j EXCEPT !.iteration_id = @ + 1, !.pc = "result", !.results = @ + 1]

\* The end of one pass through the loop body: iteration_id += 1, then the
\* loop asks the generator for the next item.  An exhausted generator ends
\* the loop and client.result is called.
LoopOn(j) ==
    LET nxt == poll_until_ready(j.remote, j.seen)
    IN  [j EXCEPT !.iteration_id = @ + 1,
                  !.pc = IF nxt.ended THEN "result" ELSE "poll",
                  !.ended = nxt.ended,
                  !.results = @ + (IF nxt.ended THEN 1 ELSE 0)]

\* client.submit returns the request handle, or raises.
J_SubmitEnds(outcome) ==
    /\ job.pc = "submit"
    /\ job' = IF outcome = "ok"
              THEN [job EXCEPT !.pc = "poll"]
              ELSE [job EXCEPT !.pc = "done", !.outcome = "raised"]
    /\ UNCHANGED <<daily_usage, active_users, now, recorded, held, acquires, task, thr, mreq, clock_log, err>>

\* The generator's round trip ends: it hands on a status, which the loop
\* body treats by its type, or the request fails and the error propagates.
J_PollEnds(outcome) ==
    /\ job.pc = "poll"
    /\ job' = IF outcome = "ok"
              THEN LET status == poll_until_ready(job.remote, job.seen).event
                       j1 == [job EXCEPT !.seen = Append(@, status)]
                   IN  IF status.kind = "Queued"
                       THEN [j1 EXCEPT !.pc = "edit",
                                       !.shown = Append(@, status.position + 1)]
                       ELSE LoopOn(j1)
              ELSE [job EXCEPT !.pc = "done", !.outcome = "raised"]
    /\ UNCHANGED <<daily_usage, active_users, now, recorded, held, acquires, task, thr, mreq, clock_log, err>>

\* interaction.edit_original_response of the Queued branch returns or raises.
J_EditEnds(outcome) ==
    /\ job.pc = "edit"
    /\ job' = IF outcome = "ok"
              THEN LoopOn(job)
              ELSE [job EXCEPT !.pc = "done", !.outcome = "raised"]
    /\ UNCHANGED <<daily_usage, active_users, now, recorded, held, acquires, task, thr, mreq, clock_log, err>>

\* client.result returns the payload of a completed job; it raises for a
\* failed job and on a failed request.
J_ResultEnds(outcome) ==
    /\ job.pc = "result"
    /\ outcome = "ok" => job.seen[Len(job.seen)].kind = "Completed"
    /\ job' = [job EXCEPT !.pc = "done",
                          !.outcome = IF outcome = "ok" THEN "returned" ELSE "raised"]
    /\ UNCHANGED <<daily_usage, active_users, now, recorded, held, acquires, task, thr, mreq, clock_log, err>>

J_Step ==
    \E o \in {"ok", "raise"} :
        J_SubmitEnds(o) \/ J_PollEnds(o) \/ J_EditEnds(o) \/ J_ResultEnds(o)

NextJob ==
    \/ \E sc \in Scripts : J_Call(sc)
    \/ J_Step

SpecJob == InitFresh /\ [][NextJob]_vars

\* Every await of the call ends: the request or the message edit returns or raises.
FairJob == SpecJob /\ WF_vars(J_Step)

\* ------------------------------------------------------- moderate_request

SAFE == [safe |-> TRUE, reason |-> ""]

\* Mutant: a given image is moderated whatever the text verdict, and its
\* verdict is the one returned.
after_text_always_image(checked, image_url) ==
    IF image_url = "url"
    THEN [pc |-> "moderate_image", result |-> <<>>]
    ELSE [pc |-> "done", result |-> <<IF checked.safe THEN SAFE ELSE checked>>]

\* moderate_request after moderate_text has returned: an unsafe verdict is
\* returned; the image is moderated if image_url is truthy; else safe.
after_text(checked, image_url) ==
    IF ~checked.safe
    THEN [pc |-> "done", result |-> << checked >>]
    ELSE IF image_url = "url"
         THEN [pc |-> "moderate_image", result |-> <<>>]
         ELSE [pc |-> "done", result |-> << SAFE >>]

\* moderate_request after moderate_image has returned.
after_image(checked) ==
    IF ~checked.safe
    THEN [pc |-> "done", result |-> << checked >>]
    ELSE [pc |-> "done", result |-> << SAFE >>]

R_Call(image_url) ==
    /\ mreq.pc \in {"idle", "done"}
    /\ mreq.served < MaxRequests
    /\ mreq' = [IdleRequest EXCEPT !.pc = "moderate_text", !.image_url = image_url,
                                   !.calls = <<"text">>, !.served = mreq.served + 1]
    /\ UNCHANGED <<daily_usage, active_users, now, recorded, held, acquires, task, thr, job, clock_log, err>>

R_TextEnds(reply) ==
    /\ mreq.pc = "moderate_text"
    /\ LET v == moderate_text(reply)
           n == after_text(v, mreq.image_url)
       IN  mreq' = [mreq EXCEPT !.pc = n.pc, !.result = n.result,
                                !.replies = Append(@, [fetch |-> "ok", reply |-> reply]),
                                !.verdicts = Append(@, v),
                                !.calls = IF n.pc = "moderate_image"
                                          THEN Append(@, "image") ELSE @]
    /\ UNCHANGED <<daily_usage, active_users, now, recorded, held, acquires, task, thr, job, clock_log, err>>

R_ImageEnds(fetch, reply) ==
    /\ mreq.pc = "moderate_image"
    /\ LET v == moderate_image(fetch, reply)
           n == after_image(v)
       IN  mreq' = [mreq EXCEPT !.pc = n.pc, !.result = n.result,
                                !.replies = Append(@, [fetch |-> fetch, reply |-> reply]),
                                !.verdicts = Append(@, v)]
    /\ UNCHANGED <<daily_usage, active_users, now, recorded, held, acquires, task, thr, job, clock_log, err>>

\* The awaiting task is cancelled: CancelledError passes through, nothing is returned.
R_Cancelled ==
    /\ mreq.pc \in {"moderate_text", "moderate_image"}
    /\ mreq' = [mreq EXCEPT !.pc = "done"]
    /\ UNCHANGED <<daily_usage, active_users, now, recorded, held, acquires, task, thr, job, clock_log, err>>

NextRequest ==
    \/ \E image_url \in {"none", "empty", "url"} : R_Call(image_url)
    \/ \E r \in Replies : R_TextEnds(r)
    \/ \E f \in Fetches, r \in Replies : R_ImageEnds(f, r)
    \/ R_Cancelled

SpecRequest == InitFresh /\ [][NextRequest]_vars

\* ---------------------------------------------------- claims: the limiter

\* The number of timestamps of a log that are less than 24h old at time t.
Unexpired(log, t) == Cardinality({i \in DOMAIN log : t < log[i] + Day})

\* C1: single-flight.  While a user is between a successful acquire and the
\* next release call, acquire returns false for that user on every resource
\* key, whatever quota remains.
C1_SingleFlight ==
    \A u \in held, m \in Resources :
        ~acquire(daily_usage, active_users, u, m, Instant(5)).ok

\* A user holds the slot taken on one key and has never used another key.
C1_Witness ==
    \E u \in held, m1, m2 \in Resources :
        /\ m1 # m2
        /\ recorded[u][m1] # <<>>
        /\ recorded[u][m2] = <<>>
        /\ Unexpired(daily_usage[u][m2], now) < get_model_limit(m2)

\* C3: quota invariant.  For every user and resource key the number of
\* unexpired timestamps in the log is at most the key's limit: 5 for "veo",
\* 50 for "default" and for a key the limits table does not hold.
C3_QuotaInvariant ==
    /\ get_model_limit("veo") = 5
    /\ get_model_limit("default") = 50
    /\ get_model_limit("wan") = 50
    /\ \A u \in Users, m \in Resources :
          Unexpired(daily_usage[u][m], now) <= get_model_limit(m)

\* A user has reached the limit of "veo" and of an unrecognized key.
C3_Witness ==
    \E u \in Users :
        /\ Unexpired(daily_usage[u]["veo"], now) = 5
        /\ Unexpired(daily_usage[u]["wan"], now) = 50

\* C6: quota monotonicity.  When the N acquisitions ever made for (user,
\* resource) and the present moment lie within one 24h span, get_stats
\* reports used = N and remaining = max(0, limit - N).
C6_QuotaMonotonicity ==
    \A u \in Users, m \in Resources :
        LET N == Len(recorded[u][m])
            st == get_stats(daily_usage, active_users, u, m, Instant(3))
        IN  (N = 0 \/ now < recorded[u][m][1] + Day) =>
                /\ st.used = N
                /\ st.remaining = Max0(get_model_limit(m) - N)

\* N = limit for one key, 0 < N < limit for another, within one span.
C6_Witness ==
    \E u \in Users, m1, m2 \in Resources :
        /\ Len(recorded[u][m1]) = get_model_limit(m1)
        /\ now < recorded[u][m1][1] + Day
        /\ Len(recorded[u][m2]) \in 1..(get_model_limit(m2) - 1)
        /\ now < recorded[u][m2][1] + Day
        /\ acquires > 0

\* C7: window expiry.  A timestamp T counts toward used exactly while the
\* clock is below T + 24h, for get_stats, get_remaining_generations and
\* can_generate alike.
C7_WindowExpiry ==
    \A u \in Users, m \in Resources :
        LET n == Unexpired(recorded[u][m], now)
            limit == get_model_limit(m)
        IN  /\ get_stats(daily_usage, active_users, u, m, Instant(3)).used = n
            /\ get_remaining_generations(daily_usage, u, m, now).value = Max0(limit - n)
            /\ u \notin active_users =>
                  (can_generate(daily_usage, active_users, u, m, Instant(4)).ok <=> n < limit)

\* At the present moment one timestamp is exactly 24h old and another is one
\* second younger.
C7_Witness ==
    \E u \in Users, m \in Resources :
        \E i, j \in DOMAIN recorded[u][m] :
            /\ recorded[u][m][i] + Day = now
            /\ recorded[u][m][j] + Day - 1 = now

\* C8: precedence of the concurrency check.  For a user in the active set
\* can_generate returns false with the "generation in progress" reason, also
\* when the quota is exhausted; the daily-limit reason is only given to a user
\* who is not in the active set.
C8_ConcurrencyFirst ==
    \A u \in Users, m \in Resources :
        LET r == can_generate(daily_usage, active_users, u, m, Instant(4))
        IN  /\ u \in active_users =>
                /\ ~r.ok
                /\ r.reason.kind = "in_progress"
                /\ r.reason.text = CONCURRENT_MSG
            /\ r.reason.kind = "daily_limit" => u \notin active_users

\* A user in the active set whose quota for some key is exhausted.
C8_Witness ==
    \E u \in active_users, m \in Resources :
        Unexpired(daily_usage[u][m], now) >= get_model_limit(m)

UnexpiredOf(log, t) ==
    LET Young(ts) == t < ts + Day
    IN  SelectSeq(log, Young)

\* C12: quota-exhausted reason.  For a user who holds no slot and has made 5
\* acquisitions on "veo" within the last 24h, can_generate(user, "veo")
\* returns false with the daily-limit reason for "Veo 3.1" and limit 5, and
\* with d = (timestamp of the 1st of the five + 24h) - now the reason's H and
\* M are d truncated to whole hours and whole minutes of the hour: 0 <= M < 60
\* and 3600 H + 60 M <= d < 3600 H + 60 M + 60.
C12_QuotaExhaustedReason ==
    \A u \in Users \ active_users :
        LET five == UnexpiredOf(recorded[u]["veo"], now)
            r == can_generate(daily_usage, active_users, u, "veo", Instant(4))
        IN  Len(five) = 5 =>
                LET d == five[1] + Day - now
                    H == r.reason.hours
                    M == r.reason.minutes
                IN  /\ ~r.ok
                    /\ r.reason.kind = "daily_limit"
                    /\ r.reason.model_name = "Veo 3.1"
                    /\ r.reason.limit = 5
                    /\ M \in 0..59
                    /\ 3600 * H + 60 * M <= d
                    /\ d < 3600 * H + 60 * M + 60

\* A user without a slot whose five acquisitions are unexpired and whose
\* first expires in 23h 59m 59s.
C12_Witness ==
    \E u \in Users \ active_users :
        LET five == UnexpiredOf(recorded[u]["veo"], now)
        IN  /\ Len(five) = 5
            /\ five[1] + Day - now = 86399
            /\ acquires > 0

\* C2: the check-and-set of acquire is free of races.  Two acquire calls for
\* one user that a pre-emptive host interleaves never both return true while
\* neither slot has been released.
C2_NoDoubleAcquire ==
    \A t1, t2 \in Threads :
        (/\ t1 # t2
         /\ thr[t1].pc = "returned" /\ thr[t1].ok
         /\ thr[t2].pc = "returned" /\ thr[t2].ok)
        => thr[t1].user # thr[t2].user

\* C13: the remaining field of get_stats never goes below zero.  In every
\* reachable state, for every user and resource key, it is at least 0.
C13_RemainingClamped ==
    \A u \in Users, m \in Resources :
        get_stats(daily_usage, active_users, u, m, Instant(3)).remaining >= 0

\* A user who holds the slot has used up one key (remaining is 0) and has
\* quota left on another.
C13_Witness ==
    \E u \in active_users, m1, m2 \in Resources :
        /\ get_stats(daily_usage, active_users, u, m1, Instant(3)).remaining = 0
        /\ get_stats(daily_usage, active_users, u, m2, Instant(3)).remaining > 0
        /\ acquires > 0

\* C14: get_stats(user, resource) reports is_generating true exactly when the
\* user is in the active set, daily_limit equal to the resource's limit (5 for
\* "veo", 50 otherwise), and reset_time absent when used = 0 and equal to the
\* oldest unexpired timestamp of (user, resource) plus 24h when used > 0.
C14_StatsFields ==
    \A u \in Users, m \in Resources :
        LET st == get_stats(daily_usage, active_users, u, m, Instant(3))
            young == UnexpiredOf(recorded[u][m], now)
        IN  /\ st.is_generating <=> u \in active_users
            /\ st.daily_limit = IF m = "veo" THEN 5 ELSE 50
            /\ st.used = 0 => st.reset_time = <<>>
            /\ st.used > 0 =>
                  \E i \in DOMAIN young :
                      /\ \A j \in DOMAIN young : young[i] <= young[j]
                      /\ st.reset_time = <<young[i] + Day>>

\* A user in the active set has a pair with expired and unexpired timestamps
\* of different ages, and a pair without any unexpired timestamp.
C14_Witness ==
    \E u \in active_users, m1, m2 \in Resources :
        LET young == UnexpiredOf(recorded[u][m1], now)
        IN  /\ Len(young) >= 2
            /\ young[1] # young[Len(young)]
            /\ Len(young) < Len(recorded[u][m1])
            /\ UnexpiredOf(recorded[u][m2], now) = <<>>
            /\ recorded[u][m2] # <<>>

\* C15: can_generate is a read-only check.  In every reachable state a call
\* leaves the active set unchanged, adds no timestamp, leaves the log of
\* every other (user, resource) pair as it is and the number of unexpired
\* timestamps of every pair unchanged; the log of the pair it was asked about is left as it is
\* (the user holds the slot) or loses exactly the timestamps that are 24h old
\* or older.
C15_CanGenerateReadOnly ==
    \A u \in Users, m \in Resources :
        LET r == can_generate(daily_usage, active_users, u, m, Instant(4))
        IN  /\ r.active = active_users
            /\ \A v \in Users, k \in Resources :
                  /\ Unexpired(r.usage[v][k], now) = Unexpired(daily_usage[v][k], now)
                  /\ <<v, k>> # <<u, m>> => r.usage[v][k] = daily_usage[v][k]
            /\ r.usage[u][m] \in {daily_usage[u][m], UnexpiredOf(daily_usage[u][m], now)}

\* Expired timestamps lie in a log of a user who holds the slot (the call
\* returns before pruning) and of a user who does not (the call prunes).
C15_Witness ==
    \E u, v \in Users, m, k \in Resources :
        /\ u \in active_users
        /\ v \notin active_users
        /\ Unexpired(daily_usage[u][m], now) < Len(daily_usage[u][m])
        /\ Unexpired(daily_usage[v][k], now) < Len(daily_usage[v][k])

\* C16: quota is counted per resource key.  A successful acquire(user, r)
\* raises the used count of (user, r) by one and leaves the used count and
\* the log of (user, r') unchanged for every other key r'; a key the limits
\* table does not hold has the limit of "default" and its own log.
C16_PerResourceQuota ==
    /\ "wan" \notin DOMAIN MODEL_LIMITS
    /\ get_model_limit("wan") = MODEL_LIMITS["default"]
    /\ \A u \in Users, r \in Resources :
          LET a == acquire(daily_usage, active_users, u, r, Instant(5))
              Used(usage, active, k) == get_stats(usage, active, u, k, Instant(3)).used
          IN  a.ok =>
                  /\ Used(a.usage, a.active, r) = Used(daily_usage, active_users, r) + 1
                  /\ \A k \in Resources \ {r} :
                        /\ Used(a.usage, a.active, k) = Used(daily_usage, active_users, k)
                        /\ a.usage[u][k] = daily_usage[u][k]

\* A user without a slot has used up the unlisted key and has one
\* generation left on "default".
C16_Witness ==
    \E u \in Users \ active_users :
        /\ Unexpired(daily_usage[u]["wan"], now) = get_model_limit("wan")
        /\ Unexpired(daily_usage[u]["default"], now) = get_model_limit("default") - 1
        /\ acquire(daily_usage, active_users, u, "default", Instant(5)).ok
        /\ acquires > 0

\* C21: effect of a successful acquire.  When acquire(user, resource) returns
\* true the user, who was not in the active set, is in it; the log of (user,
\* resource) is its unexpired part followed by exactly one new timestamp, the
\* current time; the log of every other pair and the membership of every
\* other user are unchanged.
C21_AcquireEffect ==
    \A u \in Users, r \in Resources :
        LET a == acquire(daily_usage, active_users, u, r, Instant(5))
        IN  a.ok =>
                /\ u \notin active_users
                /\ a.active = active_users \cup {u}
                /\ a.usage[u][r] = Append(UnexpiredOf(daily_usage[u][r], now), now)
                /\ \A v \in Users, k \in Resources :
                      <<v, k>> # <<u, r>> => a.usage[v][k] = daily_usage[v][k]
                /\ \A v \in Users \ {u} : v \in a.active <=> v \in active_users

\* While another user holds a slot, acquire succeeds for a user whose log of
\* the resource holds expired timestamps.
C21_Witness ==
    \E u, v \in Users, r \in Resources :
        /\ u # v
        /\ v \in active_users
        /\ acquire(daily_usage, active_users, u, r, Instant(5)).ok
        /\ Unexpired(daily_usage[u][r], now) < Len(daily_usage[u][r])
        /\ acquires > 0

\* C22: a rejected acquire changes nothing.  When acquire(user, resource)
\* returns false the active set is unchanged, no log has gained a timestamp
\* (a log is as it was, or without its expired entries), and the used count
\* of every pair is the same before and after.
C22_RejectedAcquire ==
    \A u \in Users, r \in Resources :
        LET a == acquire(daily_usage, active_users, u, r, Instant(5))
            Used(usage, v, k) == get_stats(usage, active_users, v, k, Instant(3)).used
        IN  ~a.ok =>
                /\ a.active = active_users
                /\ \A v \in Users, k \in Resources :
                      /\ a.usage[v][k] \in
                            {daily_usage[v][k], UnexpiredOf(daily_usage[v][k], now)}
                      /\ Used(a.usage, v, k) = Used(daily_usage, v, k)

\* acquire is refused to one user for the slot it holds and to another user,
\* who holds none, for the quota.
C22_Witness ==
    \E u, v \in Users, r \in Resources :
        /\ u \in active_users
        /\ v \notin active_users
        /\ Unexpired(daily_usage[v][r], now) = get_model_limit(r)
        /\ ~acquire(daily_usage, active_users, v, r, Instant(5)).ok
        /\ ~acquire(daily_usage, active_users, u, r, Instant(5)).ok

\* C26: the active set is changed only by a successful acquire, which adds
\* the user, and by release, which removes the user: it always equals the
\* set of users between their successful acquire and the next release.
\* Clock advance, pruning, can_generate, get_stats,
\* get_remaining_generations and get_reset_time leave it as it is, so a
\* slot that is not released blocks the user's can_generate and acquire on
\* every resource at every later time, also more than 24h later.
C26_ActiveSetFrame ==
    /\ active_users = held
    /\ \A u \in Users, m \in Resources, t \in Times :
          t >= now =>
              LET clk == [i \in 1..5 |-> t]
                  cg == can_generate(daily_usage, active_users, u, m, clk)
                  a == acquire(daily_usage, active_users, u, m, clk)
              IN  /\ cg.active = active_users
                  /\ u \in active_users =>
                        /\ ~cg.ok /\ cg.reason.kind = "in_progress"
                        /\ ~a.ok /\ a.active = active_users

\* A user still holds a slot when every generation the user has made,
\* the one of this slot included, is older than 24h.
C26_Witness ==
    \E u \in active_users, m \in Resources :
        /\ now = Day + 1
        /\ recorded[u][m] # <<>>
        /\ UnexpiredOf(recorded[u][m], now) = <<>>
        /\ daily_usage[u][m] = <<>>

\* C27: re-admission after expiry.  A user who holds no slot and is rejected
\* for quota on a resource stays rejected until the clock reaches the oldest
\* retained timestamp plus 24h, and from that time on can_generate returns
\* true and acquire succeeds, with no other operation run in between: both
\* when the rejection has pruned the log and when the full log stands
\* unread in the state.
C27_ReadmittedAfterExpiry ==
    \A u \in Users \ active_users, m \in Resources :
        /\ \A t0 \in Times :
              t0 >= now =>
                  LET cg0 == can_generate(daily_usage, active_users, u, m, [i \in 1..4 |-> t0])
                  IN  ~cg0.ok =>
                          \A t \in Times :
                              t >= t0 =>
                                  LET clk == [i \in 1..5 |-> t]
                                      cg == can_generate(cg0.usage, active_users, u, m, clk)
                                      a == acquire(cg0.usage, active_users, u, m, clk)
                                  IN  IF t >= MinOf(cg0.usage[u][m]) + Day
                                      THEN cg.ok /\ a.ok /\ u \in a.active
                                      ELSE ~cg.ok /\ ~a.ok
        /\ Len(daily_usage[u][m]) >= get_model_limit(m) =>
              LET cg == can_generate(daily_usage, active_users, u, m, Instant(4))
                  a == acquire(daily_usage, active_users, u, m, Instant(5))
              IN  IF now >= MinOf(daily_usage[u][m]) + Day
                  THEN cg.ok /\ a.ok /\ u \in a.active
                  ELSE ~cg.ok /\ cg.reason.kind = "daily_limit" /\ ~a.ok

\* The clock has just reached the oldest timestamp plus 24h of a user whose
\* log holds a full quota and has not been read since.
C27_Witness ==
    \E u \in Users \ active_users, m \in Resources :
        /\ Len(daily_usage[u][m]) = get_model_limit(m)
        /\ now = MinOf(daily_usage[u][m]) + Day
        /\ can_generate(daily_usage, active_users, u, m, Instant(4)).ok

\* C31: the two remaining-quota reads agree.  In every reachable state, for
\* every user and resource, get_remaining_generations returns the remaining
\* field of get_stats, whichever of the two is called first, and get_stats
\* satisfies used + remaining = daily_limit.
C31_RemainingReadsAgree ==
    \A u \in Users, m \in Resources :
        LET st == get_stats(daily_usage, active_users, u, m, Instant(3))
            gr == get_remaining_generations(daily_usage, u, m, now)
        IN  /\ gr.value = st.remaining
            /\ get_remaining_generations(st.usage, u, m, now).value = st.remaining
            /\ get_stats(gr.usage, active_users, u, m, Instant(3)).remaining = gr.value
            /\ st.used + st.remaining = st.daily_limit

\* A log holds expired entries that no call has pruned yet, beside one that
\* still counts: both reads have to prune before they count.
C31_Witness ==
    \E u \in Users, m \in Resources :
        LET st == get_stats(daily_usage, active_users, u, m, Instant(3))
        IN  /\ st.used > 0 /\ Len(daily_usage[u][m]) > st.used
            /\ get_remaining_generations(daily_usage, u, m, now).value = st.daily_limit - st.used

\* What user u gets from the limiter in a state: the outcome of can_generate
\* and of acquire and the figures of get_stats for every resource, and u's
\* own logs and membership after each of these calls.
Answers(usage, active, u) ==
    [m \in Resources |->
        LET cg == can_generate(usage, active, u, m, Instant(4))
            a == acquire(usage, active, u, m, Instant(5))
            st == get_stats(usage, active, u, m, Instant(3))
        IN  [can_generate |-> <<cg.ok, cg.reason, cg.usage[u], u \in cg.active>>,
             acquire |-> <<a.ok, a.usage[u], u \in a.active>>,
             get_stats |-> <<st.used, st.remaining, st.daily_limit, st.is_generating,
                             st.reset_time, st.usage[u]>>]]

\* What the next acquire of user u returns and leaves behind for u, for
\* every resource.
NextAcquire(usage, active, u) ==
    [m \in Resources |->
        LET a == acquire(usage, active, u, m, Instant(5))
        IN  <<a.ok, a.usage[u], u \in a.active>>]

\* The limiter state with everything of the other users erased.
OwnUsage(u) ==
    [w \in Users |-> IF w = u THEN daily_usage[u] ELSE [m \in Resources |-> <<>>]]

\* The states one call of acquire, release, can_generate or get_stats for
\* user v can lead to from the current state.
AfterCallFor(v) ==
    LET State(r) == [usage |-> r.usage, active |-> r.active]
    IN  {State(release(daily_usage, active_users, v))}
        \cup {State(acquire(daily_usage, active_users, v, m, Instant(5))) : m \in Resources}
        \cup {State(can_generate(daily_usage, active_users, v, m, Instant(4))) : m \in Resources}
        \cup {[usage |-> get_stats(daily_usage, active_users, v, m, Instant(3)).usage,
               active |-> active_users] : m \in Resources}

\* C32: user isolation.  What can_generate, acquire and get_stats give
\* user u depends only on u's own logs, u's own membership of the active
\* set and the clock; and a call of acquire, release, can_generate or
\* get_stats for another user v leaves u's logs (and with them u's used
\* counts), u's membership and the outcome of u's next acquire as they were.  As this holds in every
\* reachable state, it holds for every sequence of such calls.
C32_UserIsolation ==
    \A u \in Users :
        LET here == NextAcquire(daily_usage, active_users, u)
        IN  /\ Answers(daily_usage, active_users, u)
                  = Answers(OwnUsage(u), active_users \cap {u}, u)
            /\ \A v \in Users \ {u} :
                  \A after \in AfterCallFor(v) \ {[usage |-> daily_usage, active |-> active_users]} :
                      /\ after.usage[u] = daily_usage[u]
                      /\ (u \in after.active) = (u \in active_users)
                      /\ NextAcquire(after.usage, after.active, u) = here

\* One user holds a slot with a full "veo" log while the other, with one
\* generation made and released, is admitted.
C32_Witness ==
    \E u \in Users, v \in Users :
        /\ u # v
        /\ v \in active_users /\ Len(daily_usage[v]["veo"]) = get_model_limit("veo")
        /\ u \notin active_users /\ Len(daily_usage[u]["veo"]) = 1
        /\ acquire(daily_usage, active_users, u, "veo", Instant(5)).ok

\* --------------------------------------------------- claims: the commands

\* The invocations of user u between their successful acquire and their release.
InFlight(u) ==
    {i \in Invocations : task[i].user = u /\ task[i].acquired /\ task[i].releases = 0}

Holding(i) == task[i].acquired /\ task[i].releases = 0

\* C4: guaranteed release.  An invocation whose acquire returned true has
\* called release exactly once when it has ended and not before, on every
\* path; and when every await returns or raises, an invocation that holds the
\* slot ends with its user out of the active set.
C4_ReleasedOnce ==
    \A i \in Invocations :
        task[i].releases = IF task[i].acquired /\ task[i].pc = "done" THEN 1 ELSE 0

C4_GuaranteedRelease ==
    /\ []C4_ReleasedOnce
    /\ \A i \in Invocations :
          Holding(i) ~> (task[i].pc = "done" /\ task[i].user \notin active_users)

\* Both invocations held a slot and have ended released: one after a
\* moderation call that raised, the other after submitting its job.
C4_Witness ==
    \E i, j \in Invocations :
        /\ task[i].pc = "done" /\ task[i].acquired /\ task[i].releases = 1
        /\ task[i].mod_raised # "no" /\ task[i].submits = 0
        /\ task[j].pc = "done" /\ task[j].acquired /\ task[j].releases = 1
        /\ task[j].submits = 1
        /\ active_users = {}

\* C5: a user is in the active set if and only if exactly one invocation of
\* that user is between its successful acquire and its release, and no user
\* has two invocations in flight, over all three commands.
C5_ActiveIffOneInFlight ==
    \A u \in Users :
        /\ Cardinality(InFlight(u)) <= 1
        /\ u \in active_users <=> Cardinality(InFlight(u)) = 1

\* One user has an invocation in flight and a second invocation, of another
\* command and resource key, that was refused.
C5_Witness ==
    \E i, j \in Invocations :
        /\ task[i].user = task[j].user
        /\ model_of(task[i].cmd) # model_of(task[j].cmd)
        /\ Holding(i)
        /\ task[j].pc = "send_rejection"

\* C10: fail-closed on moderation errors.  When the model request, the image
\* download or the image decoding raises, moderate_text and moderate_image
\* return safe = false with their "Unable to verify" reason, and the command
\* that called them never submits a job.
C10_FailClosed ==
    /\ \A r \in Replies :
          r.kind = "raises" => moderate_text(r) = [safe |-> FALSE, reason |-> UNABLE_TEXT]
    /\ \A f \in Fetches, r \in Replies :
          (f # "ok" \/ r.kind = "raises") =>
              moderate_image(f, r) = [safe |-> FALSE, reason |-> UNABLE_IMAGE]
    /\ \A i \in Invocations :
          task[i].mod_raised # "no" =>
              /\ task[i].submits = 0
              /\ task[i].pc \in {"edit_flagged", "edit_error", "followup_send", "done"}

\* One command has ended after its text moderation raised, another after its
\* image moderation raised; neither submitted a job.
C10_Witness ==
    \E i, j \in Invocations :
        /\ task[i].pc = "done" /\ task[i].mod_raised = "text" /\ task[i].submits = 0
        /\ task[j].pc = "done" /\ task[j].mod_raised = "image" /\ task[j].submits = 0

\* C11: no submission without a moderation determination.  When a moderation
\* reply is no parseable verdict, or is a verdict without a "safe" field, the
\* content is treated as unsafe: the command goes to its "flagged" (or error)
\* report and never submits the job.
C11_NoSubmitUndetermined ==
    \A i \in Invocations :
        task[i].mod_undetermined =>
            /\ task[i].submits = 0
            /\ task[i].pc \in {"edit_flagged", "edit_error", "followup_send", "done"}

\* C20: orchestration order.  In /veo, /wan and /ovi the job is submitted
\* (fal_client.run_async) at most once and only by an invocation whose
\* acquire returned true, after the text and every attached image were
\* moderated safe; while the submission is under way the invocation has not
\* released and its user is in the active set; release is the last thing an
\* invocation does, so it follows the submission.
C20_OrchestrationOrder ==
    \A i \in Invocations :
        /\ task[i].submits <= 1
        /\ task[i].submits > 0 =>
              /\ task[i].acquired
              /\ task[i].moderated = "safe"
              /\ task[i].frames = 0
        /\ task[i].pc = "run_async" =>
              /\ task[i].submits = 1
              /\ task[i].releases = 0
              /\ task[i].user \in active_users
        /\ task[i].releases > 0 => task[i].pc = "done"

\* One invocation is awaiting its submitted job while the other, of another
\* user, has submitted, ended and released.
C20_Witness ==
    \E i, k \in Invocations :
        /\ task[i].pc = "run_async" /\ task[i].cmd = "veo"
        /\ task[k].pc = "done" /\ task[k].submits = 1 /\ task[k].releases = 1
        /\ task[k].cmd # "veo"
        /\ active_users = {task[i].user}

\* The invocations that acquired the slot of (u, m).
Acquired(u, m) ==
    {i \in Invocations : task[i].acquired /\ task[i].user = u /\ model_of(task[i].cmd) = m}

\* C24: quota is consumed at acquisition and never refunded.  release leaves
\* every timestamp log unchanged, and the used count of (user, resource) is
\* the count at the start plus one for every invocation that acquired that
\* slot, whether it submitted a job or ended without one (failed validation,
\* moderation rejection, exception) and was released.
C24_NoRefund ==
    /\ \A u \in Users : release(daily_usage, active_users, u).usage = daily_usage
    /\ \E s \in {0, 1} :
          \A u \in Users, m \in Resources :
              get_stats(daily_usage, active_users, u, m, Instant(3)).used
                  = Len(InitUsage(s)[u][m]) + Cardinality(Acquired(u, m))

\* Two invocations of one user and command have acquired, ended without
\* submitting and released: one after an unsafe verdict, one before any.
C24_Witness ==
    \E i, k \in Invocations :
        /\ i # k
        /\ task[i].user = task[k].user /\ task[i].cmd = task[k].cmd
        /\ task[i].pc = "done" /\ task[i].acquired /\ task[i].releases = 1
        /\ task[i].submits = 0 /\ task[i].moderated = "unsafe"
        /\ task[k].pc = "done" /\ task[k].acquired /\ task[k].releases = 1
        /\ task[k].submits = 0 /\ task[k].moderated = "none"
        /\ active_users = {}

\* C25: an invocation whose admission was rejected (acquire returned false,
\* or in /ovi can_generate returned false) only sends its rejection and
\* ends: it never calls release, never calls moderation and never submits a
\* job.  So a slot is released only by the invocation that acquired it, and
\* an invocation that holds its slot finds its user in the active set
\* whatever rejected invocations of that user have done meanwhile.
C25_RejectedDoesNothing ==
    \A i \in Invocations :
        /\ (task[i].pc # "idle" /\ ~task[i].acquired) =>
              /\ task[i].pc \in {"send_rejection", "done"}
              /\ task[i].releases = 0
              /\ task[i].submits = 0
              /\ task[i].moderated = "none"
              /\ task[i].mod_raised = "no"
              /\ ~task[i].mod_undetermined
        /\ task[i].releases > 0 => task[i].acquired
        /\ Holding(i) => task[i].user \in active_users

\* A second command of a user whose first command awaits its job was
\* rejected and has ended; the first still holds the slot.
C25_Witness ==
    \E i, k \in Invocations :
        /\ task[i].user = task[k].user
        /\ task[i].pc = "run_async" /\ Holding(i)
        /\ task[k].pc = "done" /\ ~task[k].acquired
        /\ task[i].user \in active_users

\* -------------------------------------- claims: the clock during a prologue

\* C28: bounds of the reported reset time.  Whenever can_generate returns
\* the daily-limit reason, the hours and minutes in it satisfy
\* 0 <= H <= 24 and 0 <= M <= 59, also when the clock moves between the
\* pruning, the reset-time lookup and the subtraction of the current time.
C28_ResetTimeBounds ==
    \A u \in Users, m \in Resources, clk \in Reads :
        LET cg == can_generate(daily_usage, active_users, u, m, clk)
        IN  (~cg.ok /\ cg.reason.kind = "daily_limit") =>
                /\ 0 <= cg.reason.hours /\ cg.reason.hours <= 24
                /\ 0 <= cg.reason.minutes /\ cg.reason.minutes <= 59

\* C29: rejection message consistency in /veo and /wan.  Whenever acquire
\* returns false, the can_generate call made afterwards for the message
\* returns a reason, and the figures shown beside it agree with it (a
\* daily-limit reason goes with used >= limit and nothing remaining), also
\* when the clock moves between the three calls.
C29_RejectionConsistent ==
    \A u \in Users, cmd \in {"veo", "wan"}, p \in Phases :
        LET a == admit(daily_usage, active_users, cmd, u, <<At(p[1]), At(p[2]), At(p[3])>>)
        IN  ~a.acquired =>
                /\ a.reason.kind \in {"in_progress", "daily_limit"}
                /\ a.reason.kind = "daily_limit" =>
                      /\ a.shown[1].used >= a.shown[1].daily_limit
                      /\ a.shown[1].remaining <= 0
                /\ a.reason.kind = "in_progress" => u \in active_users

\* C30: in /ovi the acquire that follows a can_generate that returned true
\* returns true, whatever the clock does between the two calls: the "Failed
\* to acquire generation slot" branch is never taken.
C30_OviAcquireSucceeds ==
    /\ \A i \in Invocations : ~task[i].slot_failed
    /\ \A u \in Users, p \in Phases :
          LET cg == can_generate(daily_usage, active_users, u, "default", At(p[1]))
              a == admit(daily_usage, active_users, "ovi", u, <<At(p[1]), At(p[2]), At(p[3])>>)
          IN  /\ ~a.slot_failed
              /\ cg.ok => a.acquired /\ u \in a.active

\* An /ovi invocation of a user one generation short of the limit was
\* admitted: can_generate ran at time 1, acquire 24h after the old entries.
C30_Witness ==
    \E i \in Invocations :
        /\ task[i].cmd = "ovi" /\ task[i].acquired /\ task[i].pc = "send_checking"
        /\ clock_log = <<1, Day>>
        /\ Len(recorded[task[i].user]["default"]) = get_model_limit("default")
        /\ daily_usage[task[i].user]["default"] = << Day >>
        /\ task[i].user \in active_users

\* ------------------------------------------------ claims: moderate_request

\* C23: moderate_request checks the text first and moderates the image only
\* when the text was judged safe and an image URL is given (and then it
\* does); it returns safe = true exactly when every check it performed
\* returned safe, and otherwise false with the reason of the first failing
\* check.
C23_ModerateRequest ==
    /\ mreq.pc # "idle" => mreq.calls \in {<<"text">>, <<"text", "image">>}
    /\ mreq.calls = <<"text", "image">> <=>
          /\ Len(mreq.verdicts) >= 1
          /\ mreq.verdicts[1].safe
          /\ mreq.image_url = "url"
    /\ mreq.result # <<>> =>
          LET res == mreq.result[1]
              failing == {i \in DOMAIN mreq.verdicts : ~mreq.verdicts[i].safe}
          IN  /\ mreq.pc = "done"
              /\ Len(mreq.verdicts) = Len(mreq.calls)
              /\ res.safe <=> failing = {}
              /\ res.safe => res.reason = ""
              /\ ~res.safe =>
                    \E i \in failing :
                        /\ \A k \in failing : i <= k
                        /\ res.reason = mreq.verdicts[i].reason

\* Two calls in a row: the second, with an image URL, has returned unsafe for
\* an image that could not be fetched after a text found safe.
C23_Witness ==
    /\ mreq.served = 2
    /\ mreq.pc = "done"
    /\ mreq.calls = <<"text", "image">>
    /\ mreq.verdicts[1].safe
    /\ mreq.result = <<[safe |-> FALSE, reason |-> UNABLE_IMAGE]>>

\* ------------------------------------------------ claims: the error report

\* The text between the opening and the closing fence of a fenced text.
Fenced(r) == SubSeq(r, Len(FENCE_OPEN) + 1, Len(r) - Len(FENCE_CLOSE))

\* r is a text between an opening and a closing fence.
IsFenced(r) ==
    /\ Len(r) >= Len(FENCE_OPEN) + Len(FENCE_CLOSE)
    /\ SubSeq(r, 1, Len(FENCE_OPEN)) = FENCE_OPEN
    /\ SubSeq(r, Len(r) - Len(FENCE_CLOSE) + 1, Len(r)) = FENCE_CLOSE

\* cut is text as wrap_source_code is to bound it: text itself when shorter
\* than 1500 characters, else its first 300, "[...]" and its last 1200.
Bounded(cut, text) ==
    LET n == Len(text)
    IN  /\ n < 1500 => cut = text
        /\ n >= 1500 =>
              /\ Len(cut) = 1505
              /\ \A i \in 1..300 : cut[i] = text[i]
              /\ SubSeq(cut, 301, 305) = ELLIPSIS
              /\ \A i \in 1..1200 : cut[305 + i] = text[n - 1200 + i]

\* C34: the diagnostic payload is bounded in size.  wrap_source_code
\* returns its input unchanged inside a code fence when the input is
\* shorter than 1500 characters, and otherwise the first 300 characters,
\* "[...]" and the last 1200 characters inside the fence; the text inside
\* the fence is never longer than 1505 characters.
C34_WrapBounded ==
    err.pc = "returned" =>
        /\ IsFenced(err.result)
        /\ Bounded(Fenced(err.result), err.source)
        /\ Len(Fenced(err.result)) <= 1505

\* wrap_source_code has cut a text of exactly 1500 characters, some of them
\* backslashes, to 1505.
C34_Witness ==
    /\ err.pc = "returned"
    /\ Len(err.source) = 1500
    /\ \E i \in 1..300 : err.source[i] = "\\"
    /\ Len(Fenced(err.result)) = 1505
    /\ Fenced(err.result) # err.source

\* The indented JSON text of what a response body holds: of the parsed
\* document when the body is JSON, otherwise of {"error": <the body text>}.
Dump(body) ==
    json_dumps(IF body.json THEN [key |-> DETAIL_KEY, value |-> body.value]
               ELSE [key |-> ERROR_KEY, value |-> body.text])

\* The callback has been called and has made its edit_original_response call.
Called == err.pc \in {"edit_original_response", "done", "raised"}

\* What follows the first line of a message.
AfterHead(content) == SubSeq(content, Len(MESSAGE_HEAD) + 1, Len(content))

C17_OneTerminalLast ==
    /\ \A i \in DOMAIN job.seen : Terminal(job.seen[i]) => i = Len(job.seen)
    /\ job.ended =>
          /\ job.seen # <<>>
          /\ Cardinality({i \in DOMAIN job.seen : Terminal(job.seen[i])}) = 1
          /\ ~(\E i, k \in DOMAIN job.seen :
                  job.seen[i].kind = "Completed" /\ job.seen[k].kind = "Failed")

C17_PollTerminates ==
    /\ []C17_OneTerminalLast
    /\ job.pc = "poll" ~> (job.ended \/ job.outcome = "raised")

\* The sequence has ended after a queue position, a batch of logs and Failed.
C17_Witness ==
    /\ job.ended
    /\ Len(job.seen) >= 3
    /\ job.seen[1].kind = "Queued"
    /\ job.seen[Len(job.seen) - 1].kind = "InProgress"
    /\ job.seen[Len(job.seen)].kind = "Failed"

\* The scenario of the remote reports Queued{2}, Queued{0}, InProgress{[a,b]},
\* Completed{R}.
Scenario == <<Queued(2), Queued(0), InProgress(<<"a", "b">>), Completed>>

\* The position of the first terminal status among the responses.
FirstTerminal(remote) ==
    CHOOSE i \in DOMAIN remote :
        Terminal(remote[i]) /\ \A k \in 1..(i - 1) : ~Terminal(remote[k])

\* C18: poll event order.  The events the consumer has bound are the remote
\* reports in their order, none dropped, duplicated or reordered: the k
\* events bound so far are the first k reports, and when the sequence has
\* ended they are the reports up to the first terminal one.  For the reports
\* Queued{2}, Queued{0}, InProgress{[a,b]}, Completed{R} the consumer has bound
\* exactly these four when the sequence ends, and it ends after the fourth.
C18_EventOrder ==
    /\ Len(job.seen) <= Len(job.remote)
    /\ \A i \in DOMAIN job.seen : job.seen[i] = job.remote[i]
    /\ job.ended => Len(job.seen) = FirstTerminal(job.remote)
    /\ job.remote = Scenario =>
          /\ job.ended => job.seen = Scenario
          /\ Len(job.seen) = 4 => job.ended

\* The four reports of the scenario have been consumed and the loop has ended.
C18_Witness ==
    /\ job.remote = Scenario
    /\ job.seen = Scenario
    /\ job.ended
    /\ job.shown = <<3, 1>>

\* C19: job protocol order.  submit_interactive_task has called submit
\* exactly once from its start on; it consumes the sequence after submit has
\* returned; result has been called exactly once when the sequence has been
\* consumed to its end and not at all before, so never before a terminal
\* status has been observed.
C19_ProtocolOrder ==
    /\ job.submits = IF job.pc = "idle" THEN 0 ELSE 1
    /\ job.pc = "submit" => job.seen = <<>>
    /\ job.results = IF job.ended THEN 1 ELSE 0
    /\ job.pc = "result" => job.ended
    /\ job.results > 0 => job.seen # <<>> /\ Terminal(job.seen[Len(job.seen)])
    /\ job.outcome = "returned" => job.results = 1 /\ job.pc = "done"

\* The call has returned the payload of a job that was queued and in
\* progress before it completed.
C19_Witness ==
    /\ job.pc = "done"
    /\ job.outcome = "returned"
    /\ job.submits = 1
    /\ job.results = 1
    /\ Len(job.seen) >= 3
    /\ job.seen[Len(job.seen)].kind = "Completed"

====
